---------------------------- MODULE Spec2Model ----------------------------
(***************************************************************************)
(* Model of the multi-account registry of deltachat-core-rust              *)
(* (src/src/accounts.rs): the Accounts manager, its Config registry        *)
(* (the in-memory InnerConfig mirrored in accounts.toml) and the map of    *)
(* live accounts.                                                          *)
(*                                                                         *)
(* Every handler is one action.  The filesystem and the external           *)
(* collaborators (Context::new, imex) can fail; which of the fallible      *)
(* calls of a handler fail is an input of the action (a set of fault       *)
(* points).                                                                *)
(***************************************************************************)
EXTENDS Integers, Sequences, FiniteSets, TLC

\* Bound on next_id: new_account is only called while next_id < MaxId.
MaxId == 3

\* The os_name values handed to Accounts::create / Accounts::new.
OsNames == {"my_os", "other_os"}

\* Account ids used as arguments of remove_account / select_account
\* (known and unknown ones).
IdArgs == 0..MaxId

VARIABLES
    dir,      \* BOOLEAN: the accounts root directory exists
    file,     \* <<>> when accounts.toml does not exist, else <<its content>>
    status,   \* "none": no Accounts value is loaded; "ready": one is
    inner,    \* Config.inner: the in-memory InnerConfig of the loaded registry
    live,     \* Accounts.accounts: the ids that have a live Context
    ever,     \* history: ids that ever appeared in the account list of accounts.toml
    last      \* the last call: its name, argument, inputs, result and the state before it

vars == <<dir, file, status, inner, live, ever, last>>

----------------------------------------------------------------------------
(* Results.  Errors carry the message of the code that raises them.         *)

Ok == "ok"
Panic == "panic"
ErrCreateFolder == "failed to create folder"
ErrWrite == "failed to write config"
ErrRead == "failed to read file"
ErrContext == "Context::new failed"
ErrCreateDefault == "failed to create default account"
ErrNoDir == "directory does not exist"
ErrNoFile == "accounts.toml does not exist"
ErrNoAccount == "no account with this id"
ErrInvalidId == "invalid account id"
ErrRemoveDir == "failed to remove account data"
ErrImex == "imex: import backup failed"

IsErr(res) == res \notin {Ok, Panic}

----------------------------------------------------------------------------
(* Data.                                                                    *)

\* AccountConfig.  name is always the empty string here; dir and uuid are
\* fresh random values that no modelled operation compares.
AccountConfig(id) == [id |-> id]

\* The ids of a list of AccountConfig.
Ids(accounts) == {accounts[k].id : k \in DOMAIN accounts}

\* InnerConfig as Config::new builds it.
NewInner(os_name) ==
    [os_name |-> os_name, selected_account |-> 0, next_id |-> 0, accounts |-> <<>>]

\* The value of `inner` while no registry is loaded.
NoInner == NewInner("")

\* toml::to_string_pretty of an InnerConfig: the fields in declaration order.
ToToml(cfg) ==
    <<cfg.os_name, cfg.selected_account, cfg.next_id,
      [k \in DOMAIN cfg.accounts |-> cfg.accounts[k].id]>>

\* A parser that reads selected_account and next_id in the wrong order.
FromToml_swapped(t) ==
    [os_name |-> t[1], selected_account |-> t[3], next_id |-> t[2],
     accounts |-> [k \in DOMAIN t[4] |-> AccountConfig(t[4][k])]]

\* toml::from_slice into an InnerConfig.
FromToml(t) ==
    [os_name |-> t[1], selected_account |-> t[2], next_id |-> t[3],
     accounts |-> [k \in DOMAIN t[4] |-> AccountConfig(t[4][k])]]

\* iter().position(|e| e.id == id): the first index holding id, 0 when none.
Position(accounts, id) ==
    IF id \in Ids(accounts)
    THEN CHOOSE k \in DOMAIN accounts :
            /\ accounts[k].id = id
            /\ \A j \in 1..(k - 1) : accounts[j].id # id
    ELSE 0

\* Vec::remove(idx).
RemoveAt(s, idx) == [k \in 1..(Len(s) - 1) |-> IF k < idx THEN s[k] ELSE s[k + 1]]

----------------------------------------------------------------------------
(* The Config registry.  A world w is the record                           *)
(*   [dir, file, inner, live, ever];                                       *)
(* every operation maps a world to [w, res] (and the id it returns).       *)

\* Config::sync when fs::write succeeds.
Config_sync(w) ==
    [w EXCEPT !.file = <<ToToml(w.inner)>>,
              !.ever = @ \cup Ids(w.inner.accounts)]

\* Config::get_account(id).is_some()
Config_has_account(w, id) == id \in Ids(w.inner.accounts)

\* select_account without its ensure!: any id is accepted.
Config_select_account_unchecked(w, id, syncFails) ==
    LET w1 == [w EXCEPT !.inner.selected_account = id]
    IN  IF syncFails
        THEN [w |-> w1, res |-> ErrWrite]
        ELSE [w |-> Config_sync(w1), res |-> Ok]

\* Config::select_account.  syncFails: the rewrite of accounts.toml fails.
Config_select_account(w, id, syncFails) ==
    IF ~Config_has_account(w, id)
    THEN [w |-> w, res |-> ErrInvalidId]
    ELSE LET w1 == [w EXCEPT !.inner.selected_account = id]
         IN  IF syncFails
             THEN [w |-> w1, res |-> ErrWrite]
             ELSE [w |-> Config_sync(w1), res |-> Ok]

\* Config::new_account.  sync1Fails: the rewrite after the push fails;
\* sync2Fails: the rewrite inside select_account fails, which the
\* expect("just added") turns into a panic.
Config_new_account(w, sync1Fails, sync2Fails) ==
    LET id == w.inner.next_id
        w1 == [w EXCEPT !.inner.accounts = Append(@, AccountConfig(id)),
                        !.inner.next_id = @ + 1]
    IN  IF sync1Fails
        THEN [w |-> w1, res |-> ErrWrite, id |-> id]
        ELSE LET s == Config_select_account(Config_sync(w1), id, sync2Fails)
             IN  [w |-> s.w, res |-> IF s.res = Ok THEN Ok ELSE Panic, id |-> id]

\* remove_account that hands the removed account's id out again.
Config_remove_account_reuses_id(w, id, syncFails) ==
    LET idx == Position(w.inner.accounts, id)
        accounts1 == IF idx # 0 THEN RemoveAt(w.inner.accounts, idx)
                     ELSE w.inner.accounts
        selected1 == IF w.inner.selected_account = id
                     THEN (IF Len(accounts1) > 0 THEN accounts1[1].id ELSE 0)
                     ELSE w.inner.selected_account
        w1 == [w EXCEPT !.inner.accounts = accounts1,
                        !.inner.selected_account = selected1,
                        !.inner.next_id = IF idx # 0 THEN id ELSE @]
    IN  IF syncFails
        THEN [w |-> w1, res |-> ErrWrite]
        ELSE [w |-> Config_sync(w1), res |-> Ok]

\* remove_account that falls back to the last remaining account.
Config_remove_account_selects_last(w, id, syncFails) ==
    LET idx == Position(w.inner.accounts, id)
        accounts1 == IF idx # 0 THEN RemoveAt(w.inner.accounts, idx)
                     ELSE w.inner.accounts
        selected1 == IF w.inner.selected_account = id
                     THEN (IF Len(accounts1) > 0
                           THEN accounts1[Len(accounts1)].id ELSE 0)
                     ELSE w.inner.selected_account
        w1 == [w EXCEPT !.inner.accounts = accounts1,
                        !.inner.selected_account = selected1]
    IN  IF syncFails
        THEN [w |-> w1, res |-> ErrWrite]
        ELSE [w |-> Config_sync(w1), res |-> Ok]

\* Config::remove_account.
Config_remove_account(w, id, syncFails) ==
    LET idx == Position(w.inner.accounts, id)
        accounts1 == IF idx # 0 THEN RemoveAt(w.inner.accounts, idx)
                     ELSE w.inner.accounts
        selected1 == IF w.inner.selected_account = id
                     THEN (IF Len(accounts1) > 0 THEN accounts1[1].id ELSE 0)
                     ELSE w.inner.selected_account
        w1 == [w EXCEPT !.inner.accounts = accounts1,
                        !.inner.selected_account = selected1]
    IN  IF syncFails
        THEN [w |-> w1, res |-> ErrWrite]
        ELSE [w |-> Config_sync(w1), res |-> Ok]

\* Config::load_accounts when every Context::new succeeds.
Config_load_accounts(cfg) == Ids(cfg.accounts)

----------------------------------------------------------------------------
(* The Accounts manager.  f is the set of fault points that fail.           *)

\* add_account that forgets to register the new Context.
Accounts_add_account_no_insert(w, f) ==
    LET n == Config_new_account(w, "sync1" \in f, "sync2" \in f)
    IN  IF n.res # Ok
        THEN [w |-> n.w, res |-> n.res, id |-> 0]
        ELSE IF "ctx" \in f
        THEN [w |-> n.w, res |-> ErrContext, id |-> 0]
        ELSE [w |-> n.w, res |-> Ok, id |-> n.id]

\* Accounts::add_account.
Accounts_add_account(w, f) ==
    LET n == Config_new_account(w, "sync1" \in f, "sync2" \in f)
    IN  IF n.res # Ok
        THEN [w |-> n.w, res |-> n.res, id |-> 0]
        ELSE IF "ctx" \in f
        THEN [w |-> n.w, res |-> ErrContext, id |-> 0]
        ELSE [w |-> [n.w EXCEPT !.live = @ \cup {n.id}], res |-> Ok, id |-> n.id]

\* Accounts::remove_account.
Accounts_remove_account(w, id, f) ==
    IF id \notin w.live
    THEN [w |-> w, res |-> ErrNoAccount]
    ELSE LET w1 == [w EXCEPT !.live = @ \ {id}]
         IN  IF Config_has_account(w1, id) /\ "rmdir" \in f
             THEN [w |-> w1, res |-> ErrRemoveDir]
             ELSE Config_remove_account(w1, id, "rsync" \in f)

\* Accounts::select_account.
Accounts_select_account(w, id, f) == Config_select_account(w, id, "ssync" \in f)

\* Accounts::import_account.  "imex" \in f: the backup restore fails.
Accounts_import_account(w, f) ==
    LET old_id == w.inner.selected_account
        a == Accounts_add_account(w, f)
    IN  IF a.res # Ok
        THEN [w |-> a.w, res |-> a.res, id |-> 0]
        ELSE IF "imex" \notin f
        THEN [w |-> a.w, res |-> Ok, id |-> a.id]
        ELSE LET r == Accounts_remove_account(a.w, a.id, f)
             IN  IF r.res # Ok
                 THEN [w |-> r.w, res |-> r.res, id |-> 0]
                 ELSE LET s == Accounts_select_account(r.w, old_id, f)
                      IN  [w |-> s.w,
                           res |-> IF s.res # Ok THEN s.res ELSE ErrImex,
                           id |-> 0]

\* Accounts::create.  It works on a Config of its own and leaves only the
\* directory and accounts.toml behind.
Accounts_create(w, os_name, f) ==
    IF "mkdir" \in f
    THEN [w |-> w, res |-> ErrCreateFolder]
    ELSE LET w0 == [w EXCEPT !.dir = TRUE]
             c0 == [w0 EXCEPT !.inner = NewInner(os_name), !.live = {}]
             Leave(c) == [w0 EXCEPT !.file = c.file, !.ever = c.ever]
         IN  IF "nsync" \in f
             THEN [w |-> w0, res |-> ErrWrite]
             ELSE LET n == Config_new_account(Config_sync(c0), "sync1" \in f, "sync2" \in f)
                  IN  IF n.res # Ok
                      THEN [w |-> Leave(n.w), res |-> n.res]
                      ELSE IF "ctx" \in f
                      THEN [w |-> Leave(n.w), res |-> ErrCreateDefault]
                      ELSE [w |-> Leave(n.w), res |-> Ok]

\* Accounts::open.
Accounts_open(w, f) ==
    IF ~w.dir
    THEN [w |-> w, res |-> ErrNoDir]
    ELSE IF w.file = <<>>
    THEN [w |-> w, res |-> ErrNoFile]
    ELSE IF "read" \in f
    THEN [w |-> w, res |-> ErrRead]
    ELSE LET cfg == FromToml(w.file[1])
         IN  IF cfg.accounts # <<>> /\ "ctx" \in f
             THEN [w |-> w, res |-> ErrContext]
             ELSE [w |-> [w EXCEPT !.inner = cfg, !.live = Config_load_accounts(cfg)],
                   res |-> Ok]

\* Accounts::new: create when the directory does not exist, then open.
Accounts_new(w, os_name, f) ==
    IF ~w.dir
    THEN LET c == Accounts_create(w, os_name, f)
         IN  IF c.res # Ok THEN c ELSE Accounts_open(c.w, f)
    ELSE Accounts_open(w, f)

----------------------------------------------------------------------------
(***************************************************************************)
(* The per-account database handle (src/src/sql/mod.rs) and the schema     *)
(* migrator (src/src/sql/migrations.rs).                                    *)
(*                                                                         *)
(* A handle holds two optional pools over the same database file: `pool`   *)
(* (r2d2) and `sql` (sqlx).  The database file is part of the state.  The  *)
(* engine can fail any statement; which of the fallible calls of a handler *)
(* fail is an input of the action.                                         *)
(***************************************************************************)

VARIABLES
    pool,     \* Sql.pool: <<>> (None) or <<[readonly |-> b]>> (Some)
    sql,      \* Sql.sql: <<>> (None) or <<[readonly |-> b]>> (Some)
    db,       \* the database file: its tables and rows
    slast     \* the last call on the handle, with the state before it

sqlVars == <<pool, sql, db, slast>>

\* sql::Error variants and the engine's failures.
ErrNoConnection == "Sqlite: Connection closed"
ErrAlreadyOpen == "Sqlite: Already open"
ErrCouldNotOpen == "Could not open db file"
ErrConnectionPool == "Connection pool error"
ErrSqlite == "Sqlite error"
ErrSqliteExists == "Sqlite error: already exists"
ErrSqliteConstraint == "Sqlite error: UNIQUE constraint failed"
ErrSqliteReadonly == "Sqlite error: attempt to write a readonly database"
ErrSqliteNoTable == "Sqlite error: no such table"
ErrRowNotFound == "Sqlite error: RowNotFound"
ErrCallback == "error returned by the callback"
ErrFixup == "post-migration fixup failed"

----------------------------------------------------------------------------
(* Decimal text.  A config value is a sequence of one-character strings.    *)

DigitChars == <<"0", "1", "2", "3", "4", "5", "6", "7", "8", "9">>

IsDigitChar(c) == \E i \in 1..10 : DigitChars[i] = c

DigitOf(c) == (CHOOSE i \in 1..10 : DigitChars[i] = c) - 1

I32Max == 2147483647
I32Min == -2147483647 - 1

\* The digits of n >= 0, most significant first.
RECURSIVE DigitsOfNat(_)
DigitsOfNat(n) ==
    IF n < 10 THEN <<DigitChars[n + 1]>>
    ELSE Append(DigitsOfNat(n \div 10), DigitChars[(n % 10) + 1])

\* The digits of |n| for n <= 0, computed without negating n.
RECURSIVE DigitsOfNeg(_)
DigitsOfNeg(n) ==
    LET d == (10 - (n % 10)) % 10
        rest == (n + d) \div 10
    IN  IF rest = 0 THEN <<DigitChars[d + 1]>>
        ELSE Append(DigitsOfNeg(rest), DigitChars[d + 1])

\* format!("{}", value) for an i32.
FormatI32(n) == IF n < 0 THEN <<"-">> \o DigitsOfNeg(n) ELSE DigitsOfNat(n)

\* Accumulates digits the way i32::from_str does: checked_mul(10), then
\* checked_add (positive) or checked_sub (negative).  <<>> is an overflow or
\* an invalid digit, <<n>> the number.
RECURSIVE AccI32(_, _, _)
AccI32(s, acc, neg) ==
    IF s = <<>> THEN <<acc>>
    ELSE IF ~IsDigitChar(Head(s)) THEN <<>>
    ELSE LET d == DigitOf(Head(s))
         IN  IF neg
             THEN IF acc < -214748364 \/ (acc = -214748364 /\ d > 8) THEN <<>>
                  ELSE AccI32(Tail(s), acc * 10 - d, neg)
             ELSE IF acc > 214748364 \/ (acc = 214748364 /\ d > 7) THEN <<>>
                  ELSE AccI32(Tail(s), acc * 10 + d, neg)

\* str::parse::<i32>().ok(): <<>> is None, <<n>> is Some(n).
ParseI32(s) ==
    IF s = <<>> THEN <<>>
    ELSE IF Head(s) \in {"-", "+"}
         THEN IF Tail(s) = <<>> THEN <<>> ELSE AccI32(Tail(s), 0, Head(s) = "-")
         ELSE AccI32(s, 0, FALSE)

\* An i64 is [neg, mag]: its sign and the decimal digits of its magnitude
\* without leading zeros (zero is [neg |-> FALSE, mag |-> <<"0">>]).
I64(neg, mag) == [neg |-> neg, mag |-> mag]
I64MaxMag == <<"9","2","2","3","3","7","2","0","3","6","8","5","4","7","7","5","8","0","7">>
I64MinMag == <<"9","2","2","3","3","7","2","0","3","6","8","5","4","7","7","5","8","0","8">>

\* format!("{}", value) for an i64.
FormatI64(v) == IF v.neg THEN <<"-">> \o v.mag ELSE v.mag

RECURSIVE StripZeros(_)
StripZeros(s) ==
    IF Len(s) > 1 /\ Head(s) = "0" THEN StripZeros(Tail(s)) ELSE s

\* a <= b for digit sequences of equal length.
RECURSIVE DigitsLeq(_, _)
DigitsLeq(a, b) ==
    IF a = <<>> THEN TRUE
    ELSE IF DigitOf(Head(a)) < DigitOf(Head(b)) THEN TRUE
    ELSE IF DigitOf(Head(a)) > DigitOf(Head(b)) THEN FALSE
    ELSE DigitsLeq(Tail(a), Tail(b))

MagFits(mag, limit) ==
    \/ Len(mag) < Len(limit)
    \/ Len(mag) = Len(limit) /\ DigitsLeq(mag, limit)

\* str::parse::<i64>().ok(): <<>> is None, <<v>> is Some(v).
ParseI64(s) ==
    LET signed == s # <<>> /\ Head(s) \in {"-", "+"}
        neg == s # <<>> /\ Head(s) = "-"
        digits == IF signed THEN Tail(s) ELSE s
        mag == StripZeros(digits)
    IN  IF digits = <<>> \/ \E i \in 1..Len(digits) : ~IsDigitChar(digits[i])
        THEN <<>>
        ELSE IF ~MagFits(mag, IF neg THEN I64MinMag ELSE I64MaxMag) THEN <<>>
        ELSE <<I64(neg /\ mag # <<"0">>, mag)>>

----------------------------------------------------------------------------
(* The database file and the engine.                                        *)

\* The element of a one-element set; {F(x) : x \in {e}} computes e once.
The(S) == CHOOSE x \in S : TRUE

\* A config row.
Row(k, v) == [keyname |-> k, value |-> v]

\* No database file.  `base` says that the tables the migrations build on
\* (config among them) exist; `done` holds the schema statements applied so
\* far, each named <<version of its step, position in the step>>; `msgs`
\* is a table with an id column and two more columns.
NoDb == [exists |-> FALSE, base |-> FALSE, config |-> <<>>, done |-> {}, msgs |-> <<>>]

\* The rows of the config table with this keyname, in table order.
RowsFor(cfg, k) == SelectSeq(cfg, LAMBDA r : r.keyname = k)

\* Statements over the config table.
Insert(k, v) == [op |-> "insert", key |-> k, value |-> v]
Update(k, v) == [op |-> "update", key |-> k, value |-> v]
Delete(k) == [op |-> "delete", key |-> k, value |-> <<>>]
SelectValue(k) == [op |-> "select", key |-> k, value |-> <<>>]
SelectCount(k) == [op |-> "count", key |-> k, value |-> <<>>]

\* INSERT INTO msgs with an explicit id.
InsertMsg(row) == [op |-> "insert_msg", key |-> "", value |-> <<>>, row |-> row]

IsWrite(st) == st.op \in {"insert", "update", "delete", "insert_msg"}

\* config(keyname TEXT UNIQUE, value TEXT)
ConfigSchema == [keyname_unique |-> TRUE]

\* The engine runs one statement on a connection: the new table content, the
\* result, the rows affected and the rows returned.
Engine(conn, d, st) ==
    LET hit == RowsFor(d.config, st.key)
        fail(e) == [db |-> d, res |-> e, n |-> 0, rows |-> <<>>]
    IN  IF ~d.base THEN fail(ErrSqliteNoTable)
        ELSE IF IsWrite(st) /\ conn.readonly THEN fail(ErrSqliteReadonly)
        ELSE CASE st.op = "insert" ->
                    IF ConfigSchema.keyname_unique /\ hit # <<>>
                    THEN fail(ErrSqliteConstraint)
                    ELSE [db |-> [d EXCEPT !.config = Append(@, Row(st.key, st.value))],
                          res |-> Ok, n |-> 1, rows |-> <<>>]
               [] st.op = "update" ->
                    [db |-> [d EXCEPT !.config =
                                [i \in 1..Len(@) |->
                                    IF @[i].keyname = st.key
                                    THEN Row(st.key, st.value) ELSE @[i]]],
                     res |-> Ok, n |-> Len(hit), rows |-> <<>>]
               [] st.op = "delete" ->
                    [db |-> [d EXCEPT !.config =
                                SelectSeq(@, LAMBDA r : r.keyname # st.key)],
                     res |-> Ok, n |-> Len(hit), rows |-> <<>>]
               [] st.op = "select" ->
                    [db |-> d, res |-> Ok, n |-> 0,
                     rows |-> [i \in 1..Len(hit) |-> hit[i].value]]
               [] st.op = "insert_msg" ->
                    IF \E i \in 1..Len(d.msgs) : d.msgs[i].id = st.row.id
                    THEN fail(ErrSqliteConstraint)
                    ELSE [db |-> [d EXCEPT !.msgs = Append(@, st.row)],
                          res |-> Ok, n |-> 1, rows |-> <<>>]
               [] st.op = "count" ->
                    [db |-> d, res |-> Ok, n |-> 0, rows |-> <<Len(hit)>>]

----------------------------------------------------------------------------
(* The handle: Sql in src/src/sql/mod.rs.  A handler takes the world        *)
(* s = [pool, sql, db] and returns the new world, its result and its value. *)

SqlRet(s, res, ret) == [s |-> s, res |-> res, ret |-> ret]

Sql_is_open(s) == s.pool # <<>> /\ s.sql # <<>>

Sql_close_keeps_pool(s) == [s EXCEPT !.sql = <<>>]

Sql_close(s) == [s EXCEPT !.pool = <<>>, !.sql = <<>>]

\* `fails`: the engine fails the statement (I/O error, busy, ...).
Sql_execute_unguarded(s, st, fails) ==
    IF fails THEN SqlRet(s, ErrSqlite, 0)
    ELSE LET conn == IF s.sql = <<>> THEN [readonly |-> FALSE] ELSE Head(s.sql)
             e == Engine(conn, s.db, st)
         IN  SqlRet([s EXCEPT !.db = e.db], e.res, e.n)

Sql_execute(s, st, fails) ==
    IF s.sql = <<>> THEN SqlRet(s, ErrNoConnection, 0)
    ELSE IF fails THEN SqlRet(s, ErrSqlite, 0)
    ELSE LET e == Engine(Head(s.sql), s.db, st)
         IN  SqlRet([s EXCEPT !.db = e.db], e.res, e.n)

\* The first row of the result, or <<>>; a write statement returns no rows.
Sql_fetch_optional(s, st, fails) ==
    IF s.sql = <<>> THEN SqlRet(s, ErrNoConnection, <<>>)
    ELSE IF fails THEN SqlRet(s, ErrSqlite, <<>>)
    ELSE LET e == Engine(Head(s.sql), s.db, st)
         IN  SqlRet([s EXCEPT !.db = e.db], e.res,
                    IF e.rows = <<>> THEN <<>> ELSE <<Head(e.rows)>>)

Sql_fetch_one(s, st, fails) ==
    IF s.sql = <<>> THEN SqlRet(s, ErrNoConnection, <<>>)
    ELSE IF fails THEN SqlRet(s, ErrSqlite, <<>>)
    ELSE LET e == Engine(Head(s.sql), s.db, st)
         IN  IF e.res # Ok THEN SqlRet([s EXCEPT !.db = e.db], e.res, <<>>)
             ELSE IF e.rows = <<>>
             THEN SqlRet([s EXCEPT !.db = e.db], ErrRowNotFound, <<>>)
             ELSE SqlRet([s EXCEPT !.db = e.db], Ok, <<Head(e.rows)>>)

\* try_get::<i64>(0) fails on a row whose first column is not an integer.
Sql_count(s, st, fails) ==
    LET r == Sql_fetch_one(s, st, fails)
    IN  IF r.res # Ok THEN SqlRet(r.s, r.res, 0)
        ELSE IF st.op # "count" THEN SqlRet(r.s, ErrSqlite, 0)
        ELSE SqlRet(r.s, Ok, Head(r.ret))

Sql_exists(s, st, fails) ==
    LET r == Sql_count(s, st, fails)
    IN  IF r.res # Ok THEN SqlRet(r.s, r.res, FALSE)
        ELSE SqlRet(r.s, Ok, r.ret > 0)

Sql_query_get_value(s, st, fails) == Sql_fetch_optional(s, st, fails)

\* The statements of a transaction body run on the transaction's own view
\* of the database; a statement the engine rejects ends the body with that
\* error (the body's `?`).
RECURSIVE RunBody(_, _, _)
RunBody(conn, d, writes) ==
    IF writes = <<>> THEN [db |-> d, res |-> Ok]
    ELSE The({IF e.res # Ok THEN [db |-> e.db, res |-> e.res]
              ELSE RunBody(conn, e.db, Tail(writes)) :
                  e \in {Engine(conn, d, Head(writes))}})

\* The callback handed to transaction(): the statements it runs and
\* whether it returns an error of its own after them.
Callback(s, body) ==
    LET b == RunBody(Head(s.sql), s.db, body.writes)
    IN  [db |-> b.db,
         res |-> IF b.res # Ok THEN b.res
                 ELSE IF body.fails THEN ErrCallback ELSE Ok]

ErrBegin == "Sqlite error: begin failed"
ErrCommit == "Sqlite error: commit failed"
ErrRollback == "Sqlite error: rollback failed"

\* f: which of begin / commit / rollback the engine fails.  The value
\* carries the callback's own result.
Sql_transaction(s, body, f) ==
    IF s.sql = <<>> THEN SqlRet(s, ErrNoConnection, [body |-> Ok])
    ELSE IF "begin" \in f THEN SqlRet(s, ErrBegin, [body |-> Ok])
    ELSE LET c == Callback(s, body)
         IN  IF c.res = Ok
             THEN IF "commit" \in f
                  THEN SqlRet(s, ErrCommit, [body |-> c.res])
                  ELSE SqlRet([s EXCEPT !.db = c.db], Ok, [body |-> c.res])
             ELSE IF "rollback" \in f
                  THEN SqlRet(s, ErrRollback, [body |-> c.res])
                  ELSE SqlRet(s, c.res, [body |-> c.res])

\* value: <<>> is None, <<v>> is Some(v).
\* f: which of the existence check / the write the engine fails.
Sql_set_raw_config_keeps_first(s, key, value, f) ==
    IF ~Sql_is_open(s) THEN SqlRet(s, ErrNoConnection, 0)
    ELSE IF value # <<>>
         THEN LET x == Sql_exists(s, SelectCount(key), "exists" \in f)
              IN  IF x.res # Ok THEN SqlRet(x.s, x.res, 0)
                  ELSE IF x.ret THEN SqlRet(x.s, Ok, 0)
                  ELSE Sql_execute(x.s, Insert(key, Head(value)), "write" \in f)
         ELSE Sql_execute(s, Delete(key), "write" \in f)

Sql_set_raw_config(s, key, value, f) ==
    IF ~Sql_is_open(s) THEN SqlRet(s, ErrNoConnection, 0)
    ELSE IF value # <<>>
         THEN LET x == Sql_exists(s, SelectCount(key), "exists" \in f)
              IN  IF x.res # Ok THEN SqlRet(x.s, x.res, 0)
                  ELSE IF x.ret
                  THEN Sql_execute(x.s, Update(key, Head(value)), "write" \in f)
                  ELSE Sql_execute(x.s, Insert(key, Head(value)), "write" \in f)
         ELSE Sql_execute(s, Delete(key), "write" \in f)

\* The value is <<>> (None) or <<v>> (Some(v)).
Sql_get_raw_config(s, key, fails) ==
    IF ~Sql_is_open(s) \/ key = "" THEN SqlRet(s, ErrNoConnection, <<>>)
    ELSE Sql_query_get_value(s, SelectValue(key), fails)

Sql_set_raw_config_int_shifted(s, key, value, f) ==
    Sql_set_raw_config(s, key, <<FormatI32(IF value < 0 THEN value + 1 ELSE value)>>, f)

Sql_set_raw_config_int(s, key, value, f) ==
    Sql_set_raw_config(s, key, <<FormatI32(value)>>, f)

Sql_get_raw_config_int(s, key, fails) ==
    LET r == Sql_get_raw_config(s, key, fails)
    IN  IF r.res # Ok THEN r
        ELSE SqlRet(r.s, Ok, IF r.ret = <<>> THEN <<>> ELSE ParseI32(Head(r.ret)))

\* res.unwrap_or_default() > 0
Sql_get_raw_config_bool(s, key, fails) ==
    LET r == Sql_get_raw_config_int(s, key, fails)
    IN  IF r.res # Ok THEN SqlRet(r.s, r.res, FALSE)
        ELSE SqlRet(r.s, Ok, (IF r.ret = <<>> THEN 0 ELSE Head(r.ret)) > 0)

Sql_set_raw_config_bool_stores_zero(s, key, value, f) ==
    Sql_set_raw_config(s, key, IF value THEN <<(<<"1">>)>> ELSE <<(<<"0">>)>>, f)

Sql_set_raw_config_bool(s, key, value, f) ==
    Sql_set_raw_config(s, key, IF value THEN <<(<<"1">>)>> ELSE <<>>, f)

Sql_set_raw_config_int64(s, key, value, f) ==
    Sql_set_raw_config(s, key, <<FormatI64(value)>>, f)

Sql_get_raw_config_int64(s, key, fails) ==
    LET r == Sql_get_raw_config(s, key, fails)
    IN  IF r.res # Ok THEN r
        ELSE SqlRet(r.s, Ok, IF r.ret = <<>> THEN <<>> ELSE ParseI64(Head(r.ret)))

\* The ids of a sequence of rows, in descending order.
RECURSIVE IdsDesc(_)
IdsDesc(ids) ==
    IF ids = {} THEN <<>>
    ELSE LET m == CHOOSE x \in ids : \A y \in ids : y <= x
         IN  <<m>> \o IdsDesc(ids \ {m})

\* SELECT id FROM msgs WHERE <matches> ORDER BY id DESC, through
\* query_get_value: the first id of the result, 0 when there is none.
RowidQuery(s, matches(_), fails) ==
    IF s.sql = <<>> THEN SqlRet(s, ErrNoConnection, 0)
    ELSE IF fails THEN SqlRet(s, ErrSqlite, 0)
    ELSE IF ~s.db.base THEN SqlRet(s, ErrSqliteNoTable, 0)
    ELSE LET hit == SelectSeq(s.db.msgs, matches)
             ids == IdsDesc({hit[i].id : i \in 1..Len(hit)})
         IN  SqlRet(s, Ok, IF ids = <<>> THEN 0 ELSE Head(ids))

Sql_get_rowid_unordered(s, field, value, fails) ==
    LET hit == SelectSeq(s.db.msgs, LAMBDA r : r[field] = value)
    IN  IF s.sql = <<>> THEN SqlRet(s, ErrNoConnection, 0)
        ELSE SqlRet(s, Ok, IF hit = <<>> THEN 0 ELSE Head(hit).id)

Sql_get_rowid(s, field, value, fails) ==
    RowidQuery(s, LAMBDA r : r[field] = value, fails)

Sql_get_rowid2(s, field, value, field2, value2, fails) ==
    RowidQuery(s, LAMBDA r : r[field] = value /\ r[field2] = value2, fails)

----------------------------------------------------------------------------
(* The schema migrator: migrations::run in src/src/sql/migrations.rs.       *)

\* The declared versions of the steps, in the order of the code.
StepVersions ==
    <<1, 2, 7, 10, 12, 17, 18, 27, 34, 39, 40, 44, 46, 47, 48, 49, 50, 53, 54,
      55, 59, 60, 61, 62, 63, 64, 65, 66, 67, 68, 69>>

\* The statements of a step before it writes its version.  "ddl" creates a
\* table, an index or a column and fails when it exists already; "ddl_ine"
\* is CREATE INDEX IF NOT EXISTS; "data" rewrites or deletes rows; the
\* others are the config writes of steps 50, 59 and 67.
StepOps(v) ==
    CASE v = 1 -> <<"ddl", "ddl">>
      [] v = 2 -> <<"ddl">>
      [] v = 7 -> <<"ddl">>
      [] v = 10 -> <<"ddl", "ddl">>
      [] v = 12 -> <<"ddl", "ddl">>
      [] v = 17 -> <<"ddl", "ddl", "ddl", "ddl">>
      [] v = 18 -> <<"ddl", "ddl">>
      [] v = 27 -> <<"data", "ddl", "ddl", "ddl">>
      [] v = 34 -> <<"ddl", "ddl", "ddl", "ddl", "ddl", "ddl">>
      [] v = 39 -> <<"ddl", "ddl", "ddl", "ddl">>
      [] v = 40 -> <<"ddl">>
      [] v = 44 -> <<"ddl">>
      [] v = 46 -> <<"ddl", "ddl">>
      [] v = 47 -> <<"ddl">>
      [] v = 48 -> <<"ddl">>
      [] v = 49 -> <<"ddl">>
      [] v = 50 -> <<"show_emails">>
      [] v = 53 -> <<"ddl", "ddl", "ddl", "ddl", "ddl", "ddl", "ddl">>
      [] v = 54 -> <<"ddl", "ddl">>
      [] v = 55 -> <<"ddl">>
      [] v = 59 -> <<"ddl", "ddl", "bcc_self">>
      [] v = 60 -> <<"ddl">>
      [] v = 61 -> <<"ddl">>
      [] v = 62 -> <<"ddl">>
      [] v = 63 -> <<"data">>
      [] v = 64 -> <<"ddl">>
      [] v = 65 -> <<"ddl", "ddl", "ddl">>
      [] v = 66 -> <<>>
      [] v = 67 -> <<"mail_security", "send_security",
                     "configured_mail_security", "configured_send_security">>
      [] v = 68 -> <<"ddl_ine">>
      [] v = 69 -> <<"ddl", "data">>

\* ShowEmails::All as i32.
ShowEmailsAll == 2

\* server_flags & 0x700 and server_flags & 0x70000, mapped as step 67 does.
MailSecurity(server_flags) ==
    LET bits == (server_flags \div 256) % 8
    IN  CASE bits = 1 -> 2 [] bits = 2 -> 1 [] bits = 4 -> 3 [] OTHER -> 0

SendSecurity(server_flags) ==
    LET bits == (server_flags \div 65536) % 8
    IN  CASE bits = 1 -> 2 [] bits = 2 -> 1 [] bits = 4 -> 3 [] OTHER -> 0

\* The set_raw_config_int(context, key, value) the migrator calls: the
\* check-then-act write of the config store on the connection of `pool`.
Legacy_set_raw_config_int(conn, d, key, value) ==
    LET c == Engine(conn, d, SelectCount(key))
    IN  IF c.res # Ok THEN c
        ELSE IF Head(c.rows) > 0
        THEN Engine(conn, d, Update(key, FormatI32(value)))
        ELSE Engine(conn, d, Insert(key, FormatI32(value)))

\* The get_raw_config_int(context, key) the migrator calls: <<>> when the
\* key is missing, unparsable or unreadable.
Legacy_get_raw_config_int(conn, d, key) ==
    LET e == Engine(conn, d, SelectValue(key))
    IN  IF e.res # Ok \/ e.rows = <<>> THEN <<>> ELSE ParseI32(Head(e.rows))

\* The recorded schema version: 0 when there is no dbversion row.
RecordedVersion(d) ==
    LET r == Legacy_get_raw_config_int([readonly |-> TRUE], d, "dbversion")
    IN  IF r = <<>> THEN 0 ELSE Head(r)

Skip(d) == [db |-> d, res |-> Ok, n |-> 0]

\* Statement i of step v.  n counts the statements that wrote.
StepOp(conn, d, v, i, exists_before_update) ==
    LET kind == StepOps(v)[i]
        wrote(e) == [db |-> e.db, res |-> e.res, n |-> IF e.res = Ok THEN 1 ELSE 0]
        security(prefix, key, value(_)) ==
            LET flags == Legacy_get_raw_config_int(conn, d, prefix \o "server_flags")
            IN  IF flags = <<>> THEN Skip(d)
                ELSE wrote(Legacy_set_raw_config_int(conn, d, prefix \o key,
                                                     value(Head(flags))))
    IN  CASE kind = "ddl" ->
               IF conn.readonly THEN [db |-> d, res |-> ErrSqliteReadonly, n |-> 0]
               ELSE IF <<v, i>> \in d.done
               THEN [db |-> d, res |-> ErrSqliteExists, n |-> 0]
               ELSE [db |-> [d EXCEPT !.done = @ \cup {<<v, i>>}], res |-> Ok, n |-> 1]
          [] kind = "ddl_ine" ->
               IF conn.readonly THEN [db |-> d, res |-> ErrSqliteReadonly, n |-> 0]
               ELSE IF <<v, i>> \in d.done THEN Skip(d)
               ELSE [db |-> [d EXCEPT !.done = @ \cup {<<v, i>>}], res |-> Ok, n |-> 1]
          [] kind = "data" ->
               IF conn.readonly THEN [db |-> d, res |-> ErrSqliteReadonly, n |-> 0]
               ELSE [db |-> d, res |-> Ok, n |-> 1]
          [] kind = "show_emails" ->
               IF exists_before_update
               THEN wrote(Legacy_set_raw_config_int(conn, d, "show_emails", ShowEmailsAll))
               ELSE Skip(d)
          [] kind = "bcc_self" ->
               IF exists_before_update
                    /\ Legacy_get_raw_config_int(conn, d, "bcc_self") = <<>>
               THEN wrote(Legacy_set_raw_config_int(conn, d, "bcc_self", 1))
               ELSE Skip(d)
          [] kind = "mail_security" -> security("", "mail_security", MailSecurity)
          [] kind = "send_security" -> security("", "send_security", SendSecurity)
          [] kind = "configured_mail_security" ->
               security("configured_", "mail_security", MailSecurity)
          [] kind = "configured_send_security" ->
               security("configured_", "send_security", SendSecurity)

\* No statement fails.
NoFault == <<0, 0>>

RecordVersion_of_first_step(conn, d, v) ==
    Legacy_set_raw_config_int(conn, d, "dbversion", StepVersions[1])

\* The last statement of a step: set_raw_config_int(context, "dbversion", v).
RecordVersion(conn, d, v) ==
    Legacy_set_raw_config_int(conn, d, "dbversion", v)

RECURSIVE RunStep_ignores_failure(_, _, _, _, _, _, _)
RunStep_ignores_failure(conn, d, v, i, exists_before_update, failAt, n) ==
    IF i > Len(StepOps(v))
    THEN The({[db |-> w.db, res |-> w.res, n |-> IF w.res = Ok THEN n + 1 ELSE n] :
                 w \in {RecordVersion(conn, d, v)}})
    ELSE IF failAt = <<v, i>>
    THEN RunStep_ignores_failure(conn, d, v, i + 1, exists_before_update, failAt, n)
    ELSE The({RunStep_ignores_failure(conn, r.db, v, i + 1, exists_before_update,
                                      failAt, n + r.n) :
                  r \in {StepOp(conn, d, v, i, exists_before_update)}})

\* One step from statement i on: its statements, then the write of its
\* version.  failAt names the statement the engine fails.
RECURSIVE RunStep(_, _, _, _, _, _, _)
RunStep(conn, d, v, i, exists_before_update, failAt, n) ==
    IF failAt = <<v, i>> THEN [db |-> d, res |-> ErrSqlite, n |-> n]
    ELSE IF i > Len(StepOps(v))
    THEN The({[db |-> w.db, res |-> w.res, n |-> IF w.res = Ok THEN n + 1 ELSE n] :
                 w \in {RecordVersion(conn, d, v)}})
    ELSE The({IF r.res # Ok THEN [db |-> r.db, res |-> r.res, n |-> n + r.n]
              ELSE RunStep(conn, r.db, v, i + 1, exists_before_update, failAt, n + r.n) :
                  r \in {StepOp(conn, d, v, i, exists_before_update)}})

RunBlock_reruns_current(conn, acc, k, exists_before_update, failAt) ==
    IF ~(acc.dbversion <= StepVersions[k]) THEN acc
    ELSE The({
        IF r.res # Ok
        THEN [acc EXCEPT !.db = r.db, !.res = r.res, !.writes = @ + r.n]
        ELSE [dbversion |-> IF StepVersions[k] = 46 THEN 46 ELSE acc.dbversion,
              db |-> r.db, res |-> Ok,
              applied |-> Append(acc.applied,
                                 [step |-> StepVersions[k],
                                  recorded |-> RecordedVersion(r.db)]),
              writes |-> acc.writes + r.n,
              recalc_fingerprints |-> acc.recalc_fingerprints \/ StepVersions[k] = 34,
              update_icons |-> acc.update_icons \/ StepVersions[k] \in {61, 66}] :
            r \in {RunStep(conn, acc.db, StepVersions[k], 1, exists_before_update,
                           failAt, 0)}})

\* Block k of the chain: `if dbversion < N { ... }`.  acc holds the local
\* dbversion, the database, the result, the steps completed (each with the
\* version recorded when it ended), the number of statements that wrote and
\* the two flags.
RunBlock(conn, acc, k, exists_before_update, failAt) ==
    IF ~(acc.dbversion < StepVersions[k]) THEN acc
    ELSE The({
        IF r.res # Ok
        THEN [acc EXCEPT !.db = r.db, !.res = r.res, !.writes = @ + r.n]
        ELSE [dbversion |-> IF StepVersions[k] = 46 THEN 46 ELSE acc.dbversion,
              db |-> r.db, res |-> Ok,
              applied |-> Append(acc.applied,
                                 [step |-> StepVersions[k],
                                  recorded |-> RecordedVersion(r.db)]),
              writes |-> acc.writes + r.n,
              recalc_fingerprints |-> acc.recalc_fingerprints \/ StepVersions[k] = 34,
              update_icons |-> acc.update_icons \/ StepVersions[k] \in {61, 66}] :
            r \in {RunStep(conn, acc.db, StepVersions[k], 1, exists_before_update,
                           failAt, 0)}})

\* The blocks lo..hi of the chain in order; a failed statement returns from
\* run, so no later block is entered.
RECURSIVE RunBlocks(_, _, _, _, _, _)
RunBlocks(conn, acc, lo, hi, exists_before_update, failAt) ==
    IF lo = hi THEN RunBlock(conn, acc, lo, exists_before_update, failAt)
    ELSE The({IF a.res # Ok THEN a
              ELSE RunBlocks(conn, a, ((lo + hi) \div 2) + 1, hi,
                             exists_before_update, failAt) :
                  a \in {RunBlocks(conn, acc, lo, (lo + hi) \div 2,
                                   exists_before_update, failAt)}})

RunAcc(d, dbversion, exists_before_update) ==
    [dbversion |-> dbversion, db |-> d, res |-> Ok, applied |-> <<>>, writes |-> 0,
     recalc_fingerprints |-> FALSE, update_icons |-> ~exists_before_update]

migrations_run_regates_current(conn, d, dbversion_before_update, exists_before_update, failAt) ==
    RunBlocks(conn, RunAcc(d, dbversion_before_update - 1, exists_before_update),
              1, Len(StepVersions), exists_before_update, failAt)

migrations_run(conn, d, dbversion_before_update, exists_before_update, failAt) ==
    RunBlocks(conn, RunAcc(d, dbversion_before_update, exists_before_update),
              1, Len(StepVersions), exists_before_update, failAt)

----------------------------------------------------------------------------
(* Opening the handle: open, open2 and Sql::open in src/src/sql/mod.rs.     *)

\* What open and open2 do between attaching their pool and the fixups: the
\* tables the migrations build on are created in a file that has none
\* (recorded version 0, "did not exist before"), else the recorded version
\* is read; then the migrator runs.  f and failAt name the calls that fail.
Migrate(s, f, failAt) ==
    LET conn == Head(s.pool)
        fresh == ~s.db.base
        d == IF fresh THEN [s.db EXCEPT !.base = TRUE] ELSE s.db
        v == IF fresh THEN 0 ELSE RecordedVersion(s.db)
    IN  IF fresh /\ "base" \in f
        THEN [s |-> s, res |-> ErrSqlite, runs |-> <<>>, fixups |-> FALSE]
        ELSE The({[s |-> [s EXCEPT !.db = m.db], res |-> m.res,
                   runs |-> <<[v |-> v, exists_before_update |-> ~fresh,
                               res |-> m.res, applied |-> m.applied,
                               writes |-> m.writes,
                               before |-> RecordedVersion(s.db),
                               after |-> RecordedVersion(m.db),
                               is_open |-> Sql_is_open(s),
                               same_db |-> m.db = s.db]>>,
                   fixups |-> m.res = Ok
                                /\ (m.recalc_fingerprints \/ m.update_icons)] :
                     m \in {migrations_run(conn, d, v, ~fresh, failAt)}})

OpenRet(s, res, runs) == [s |-> s, res |-> res, runs |-> runs]

open_without_check(s, readonly, f, failAt) ==
    OpenRet([s EXCEPT !.pool = <<[readonly |-> readonly]>>], Ok, <<>>)

\* The r2d2 pool.  A writable open creates the file; a read-only one needs it.
open(s, readonly, f, failAt) ==
    IF Sql_is_open(s) THEN OpenRet(s, ErrAlreadyOpen, <<>>)
    ELSE IF "pool" \in f \/ (readonly /\ ~s.db.exists)
    THEN OpenRet(s, ErrConnectionPool, <<>>)
    ELSE IF readonly
    THEN OpenRet([s EXCEPT !.pool = <<[readonly |-> readonly]>>], Ok, <<>>)
    ELSE The({IF m.res # Ok THEN OpenRet(m.s, m.res, m.runs)
              ELSE IF m.fixups /\ "fixup" \in f THEN OpenRet(m.s, ErrFixup, m.runs)
              ELSE OpenRet(m.s, Ok, m.runs) :
                  m \in {Migrate([s EXCEPT !.pool = <<[readonly |-> readonly]>>,
                                           !.db.exists = TRUE], f, failAt)}})

\* The sqlx pool.
open2(s, readonly, f) ==
    IF Sql_is_open(s) THEN OpenRet(s, ErrAlreadyOpen, <<>>)
    ELSE IF "connect" \in f \/ (readonly /\ ~s.db.exists)
    THEN OpenRet(s, ErrSqlite, <<>>)
    ELSE IF readonly
    THEN OpenRet([s EXCEPT !.sql = <<[readonly |-> readonly]>>], Ok, <<>>)
    ELSE The({IF m.res # Ok THEN OpenRet(m.s, m.res, m.runs)
              ELSE IF m.fixups /\ "fixup2" \in f THEN OpenRet(m.s, ErrFixup, m.runs)
              ELSE OpenRet(m.s, Ok, m.runs) :
                  m \in {Migrate([s EXCEPT !.sql = <<[readonly |-> readonly]>>,
                                           !.db.exists = TRUE], f, NoFault)}})

Sql_open_first_phase_only(s, readonly, f, failAt) ==
    The({IF r.res # Ok
         THEN OpenRet(IF r.res = ErrAlreadyOpen THEN r.s ELSE Sql_close(r.s),
                      ErrCouldNotOpen \o ": " \o r.res, r.runs)
         ELSE r :
             r \in {open(s, readonly, f, failAt)}})

\* Sql::open: open, with close() on its errors other than AlreadyOpen and
\* its error wrapped in a message; then open2.
Sql_open(s, readonly, f, failAt) ==
    The({IF r.res # Ok
         THEN OpenRet(IF r.res = ErrAlreadyOpen THEN r.s ELSE Sql_close(r.s),
                      ErrCouldNotOpen \o ": " \o r.res, r.runs)
         ELSE The({OpenRet(r2.s, r2.res, r.runs \o r2.runs) :
                      r2 \in {open2(r.s, readonly, f)}}) :
             r \in {open(s, readonly, f, failAt)}})

\* Before the first call on the handle.
NoCall ==
    [op |-> "init", arg |-> 0, f |-> {}, res |-> Ok, ret |-> 0,
     pre |-> [pool |-> <<>>, sql |-> <<>>, db |-> NoDb],
     prev |-> [op |-> "init", arg |-> 0, res |-> Ok]]

\* No handle, no database file.
SqlIdle ==
    /\ pool = <<>>
    /\ sql = <<>>
    /\ db = NoDb
    /\ slast = NoCall

----------------------------------------------------------------------------
(* Housekeeping: housekeeping, is_file_in_use, maybe_add_file and           *)
(* maybe_add_from_param in src/src/sql/mod.rs.  Strings are sequences of    *)
(* characters.                                                              *)

VARIABLES
    tables,   \* the rows housekeeping reads: msgs, jobs, chats, contacts, config
    blobdir,  \* the blob directory: the set of its files, each with its times
    hlast,    \* the last step: of a housekeeping call its failing calls, result, effect
    in_use    \* a set of file names built with maybe_add_file

hkVars == <<tables, blobdir, hlast, in_use>>

\* "$BLOBDIR/"
BlobPrefix == <<"$", "B", "L", "O", "B", "D", "I", "R", "/">>

\* The suffixes housekeeping recognizes.
Increation == <<".", "i", "n", "c", "r", "e", "a", "t", "i", "o", "n">>
Waveform == <<".", "w", "a", "v", "e", "f", "o", "r", "m">>
PreviewJpg == <<"-", "p", "r", "e", "v", "i", "e", "w", ".", "j", "p", "g">>

\* str::starts_with and str::ends_with.
StartsWith(s, prefix) ==
    Len(s) >= Len(prefix) /\ SubSeq(s, 1, Len(prefix)) = prefix

EndsWith(s, suffix) ==
    Len(s) >= Len(suffix) /\ SubSeq(s, Len(s) - Len(suffix) + 1, Len(s)) = suffix

\* An Option: <<>> is None, <<x>> is Some(x).
None == <<>>
Some(x) == <<x>>

is_file_in_use_accepts_bare_suffix(files_in_use, namespc_opt, name) ==
    IF namespc_opt # None
    THEN LET namespc == Head(namespc_opt)
         IN  IF Len(name) < Len(namespc) \/ ~EndsWith(name, namespc) THEN FALSE
             ELSE SubSeq(name, 1, Len(name) - Len(namespc)) \in files_in_use
    ELSE name \in files_in_use

is_file_in_use(files_in_use, namespc_opt, name) ==
    IF namespc_opt # None
    THEN LET namespc == Head(namespc_opt)
         IN  IF Len(name) <= Len(namespc) \/ ~EndsWith(name, namespc) THEN FALSE
             ELSE SubSeq(name, 1, Len(name) - Len(namespc)) \in files_in_use
    ELSE name \in files_in_use

maybe_add_file_keeps_prefix(files_in_use, path) ==
    IF StartsWith(path, BlobPrefix)
    THEN files_in_use \cup {path}
    ELSE files_in_use

\* strip_prefix("$BLOBDIR/"), then insert.
maybe_add_file(files_in_use, path) ==
    IF StartsWith(path, BlobPrefix)
    THEN files_in_use \cup {SubSeq(path, Len(BlobPrefix) + 1, Len(path))}
    ELSE files_in_use

\* Params::get on a parsed param: the value of the key, if it has one.  A
\* param is a function from param ids to values; one that does not parse
\* is the empty param.
ParamGet(param, param_id) ==
    IF param_id \in DOMAIN param THEN Some(param[param_id]) ELSE None

\* The fold of maybe_add_file over a sequence of values.
RECURSIVE AddFiles(_, _)
AddFiles(files_in_use, values) ==
    IF values = <<>> THEN files_in_use
    ELSE AddFiles(maybe_add_file(files_in_use, Head(values)), Tail(values))

\* maybe_add_from_param over the params a query returns; `fails` says that
\* the query fails.
maybe_add_from_param(files_in_use, params, param_id, fails) ==
    LET with == SelectSeq(params, LAMBDA p : ParamGet(p, param_id) # None)
        files == [i \in 1..Len(with) |-> Head(ParamGet(with[i], param_id))]
    IN  IF fails THEN [res |-> ErrSqlite, files_in_use |-> files_in_use]
        ELSE [res |-> Ok, files_in_use |-> AddFiles(files_in_use, files)]

\* "SELECT param FROM msgs WHERE chat_id!=3 AND type!=10;"
MsgParams(t) ==
    LET rows == SelectSeq(t.msgs, LAMBDA r : r.chat_id # 3 /\ r.type # 10)
    IN  [i \in 1..Len(rows) |-> rows[i].param]

\* The in-use set: the four param queries, each returning its error with
\* `?`, then the config values, whose failure is logged.
FilesInUse(t, f) ==
    LET a == maybe_add_from_param({}, MsgParams(t), "File", "msgs" \in f)
        b == maybe_add_from_param(a.files_in_use, t.jobs, "File", "jobs" \in f)
        c == maybe_add_from_param(b.files_in_use, t.chats, "ProfileImage", "chats" \in f)
        d == maybe_add_from_param(c.files_in_use, t.contacts, "ProfileImage",
                                  "contacts" \in f)
    IN  IF a.res # Ok THEN a
        ELSE IF b.res # Ok THEN b
        ELSE IF c.res # Ok THEN c
        ELSE IF d.res # Ok THEN d
        ELSE [res |-> Ok,
              files_in_use |-> IF "config" \in f THEN d.files_in_use
                               ELSE AddFiles(d.files_in_use, t.config)]

\* A time is after keep_files_newer_than (now minus 60 * 60 seconds) when
\* it is "recent"; it is "old" otherwise, and "unsupported" when the
\* platform does not report it.
Recently(time) == time = "recent"

\* The body of the loop over the directory for one entry: TRUE when the
\* file is passed to dc_delete_file.
Unreferenced(files_in_use, entry, f) ==
    IF \/ is_file_in_use(files_in_use, None, entry.name)
       \/ is_file_in_use(files_in_use, Some(Increation), entry.name)
       \/ is_file_in_use(files_in_use, Some(Waveform), entry.name)
       \/ is_file_in_use(files_in_use, Some(PreviewJpg), entry.name)
    THEN FALSE
    ELSE IF "metadata" \notin f
              /\ (\/ Recently(entry.created)
                  \/ Recently(entry.modified)
                  \/ Recently(entry.accessed))
    THEN FALSE
    ELSE TRUE

\* The steps after the in-use set.
HkSteps == {"sweep", "timers", "tombstones"}

\* housekeeping on tables t and the blob directory `blobs`.  f names the calls that
\* fail; `seen` is the set of entries the directory stream yields before it
\* ends or, with "entry" in f, yields an error.
housekeeping(t, blobs, f, seen) ==
    LET u == FilesInUse(t, f)
        passed == IF "read_dir" \in f THEN {}
                  ELSE {e \in seen : Unreferenced(u.files_in_use, e, f)}
        deleted == IF "delete" \in f THEN {} ELSE passed
    IN  IF u.res # Ok
        THEN [res |-> u.res, files_in_use |-> u.files_in_use, passed |-> {},
              deleted |-> {}, blobdir |-> blobs, ran |-> {}]
        ELSE [res |-> Ok, files_in_use |-> u.files_in_use, passed |-> passed,
              deleted |-> deleted, blobdir |-> blobs \ deleted, ran |-> HkSteps]

NoSweep ==
    [op |-> "init", f |-> {}, seen |-> {}, res |-> Ok, files_in_use |-> {},
     passed |-> {}, deleted |-> {}, ran |-> {},
     pre |-> [tables |-> <<>>, blobdir |-> {}]]

NoTables == [msgs |-> <<>>, jobs |-> <<>>, chats |-> <<>>, contacts |-> <<>>, config |-> <<>>]

\* No rows, no blob files, no call yet.
HkIdle ==
    /\ tables = NoTables
    /\ blobdir = {}
    /\ hlast = NoSweep
    /\ in_use = {}
----------------------------------------------------------------------------
(* The merged event emitter: Accounts::get_event_emitter and                *)
(* EventEmitter::recv_poll in src/src/accounts.rs.                          *)

VARIABLES
    chan,       \* per account id: the event channel of the account
    emitter,    \* <<>> before get_event_emitter, else <<the wrappers>>
    delivered,  \* the events the merged emitter has returned, in order
    elast,      \* the poll of the merged emitter, when the last step was one
    recv        \* the task awaiting EventEmitter::recv, see NoRecv

evVars == <<chan, emitter, delivered, elast, recv>>

\* Poll<T>: Poll::Pending and Poll::Ready(x).
Pending == <<>>
PollReady(x) == <<x>>

\* The event channel of an account: the events sent and not yet received,
\* whether a sender is alive, and the number of events sent so far.
NewChannel == [queue |-> <<>>, senders |-> TRUE, sent |-> 0]

\* Receiver::try_recv: the oldest event; Empty when there is none and a
\* sender is alive; Disconnected when there is none and no sender is left.
try_recv(c) ==
    IF c.queue # <<>>
    THEN [res |-> Ok, event |-> Head(c.queue), chan |-> [c EXCEPT !.queue = Tail(@)]]
    ELSE IF c.senders THEN [res |-> "empty", event |-> <<>>, chan |-> c]
    ELSE [res |-> "disconnected", event |-> <<>>, chan |-> c]

\* The orders in which a HashMap with these keys can iterate.
Orders(ids) ==
    {s \in [1..Cardinality(ids) -> ids] :
        \A i, j \in 1..Cardinality(ids) : s[i] = s[j] => i = j}

\* Accounts::get_event_emitter: one wrapper per account, in the order the
\* account map iterates.
get_event_emitter(order) ==
    [i \in 1..Len(order) |-> [id |-> order[i], done |-> FALSE]]

RECURSIVE recv_poll_tags_first(_, _, _, _)
recv_poll_tags_first(wrappers, chans, i, scanned) ==
    IF i > Len(wrappers)
    THEN [ret |-> Pending, wrappers |-> wrappers, chans |-> chans, scanned |-> scanned]
    ELSE IF wrappers[i].done
    THEN recv_poll_tags_first(wrappers, chans, i + 1, scanned)
    ELSE The({
        IF r.res = Ok
        THEN [ret |-> PollReady(Some([event |-> r.event, id |-> wrappers[1].id])),
              wrappers |-> wrappers,
              chans |-> [chans EXCEPT ![wrappers[i].id] = r.chan],
              scanned |-> Append(scanned, wrappers[i].id)]
        ELSE recv_poll_tags_first(
                 IF r.res = "disconnected"
                 THEN [wrappers EXCEPT ![i].done = FALSE] ELSE wrappers,
                 chans, i + 1, Append(scanned, wrappers[i].id)) :
            r \in {try_recv(chans[wrappers[i].id])}})

RECURSIVE recv_poll_scans_backwards(_, _, _, _)
recv_poll_scans_backwards(wrappers, chans, i, scanned) ==
    IF i > Len(wrappers)
    THEN [ret |-> Pending, wrappers |-> wrappers, chans |-> chans, scanned |-> scanned]
    ELSE IF wrappers[Len(wrappers) + 1 - i].done
    THEN recv_poll_scans_backwards(wrappers, chans, i + 1, scanned)
    ELSE The({
        IF r.res = Ok
        THEN [ret |-> PollReady(Some([event |-> r.event, id |-> wrappers[Len(wrappers) + 1 - i].id])),
              wrappers |-> wrappers,
              chans |-> [chans EXCEPT ![wrappers[Len(wrappers) + 1 - i].id] = r.chan],
              scanned |-> Append(scanned, wrappers[Len(wrappers) + 1 - i].id)]
        ELSE recv_poll_scans_backwards(
                 IF r.res = "disconnected"
                 THEN [wrappers EXCEPT ![Len(wrappers) + 1 - i].done = FALSE]
                 ELSE wrappers,
                 chans, i + 1, Append(scanned, wrappers[Len(wrappers) + 1 - i].id)) :
            r \in {try_recv(chans[wrappers[Len(wrappers) + 1 - i].id])}})

\* EventEmitter::recv_poll from wrapper i on.  `scanned` lists the ids of
\* the wrappers whose channel was queried.  On Disconnected the code
\* stores false in the done flag of the wrapper.
RECURSIVE recv_poll(_, _, _, _)
recv_poll(wrappers, chans, i, scanned) ==
    IF i > Len(wrappers)
    THEN [ret |-> Pending, wrappers |-> wrappers, chans |-> chans, scanned |-> scanned]
    ELSE IF wrappers[i].done
    THEN recv_poll(wrappers, chans, i + 1, scanned)
    ELSE The({
        IF r.res = Ok
        THEN [ret |-> PollReady(Some([event |-> r.event, id |-> wrappers[i].id])),
              wrappers |-> wrappers,
              chans |-> [chans EXCEPT ![wrappers[i].id] = r.chan],
              scanned |-> Append(scanned, wrappers[i].id)]
        ELSE recv_poll(IF r.res = "disconnected"
                       THEN [wrappers EXCEPT ![i].done = FALSE] ELSE wrappers,
                       chans, i + 1, Append(scanned, wrappers[i].id)) :
            r \in {try_recv(chans[wrappers[i].id])}})

\* The ids of the wrappers whose channel has no event and no sender.
Gone(chans, wrappers) ==
    {wrappers[k].id : k \in {j \in 1..Len(wrappers) :
                                /\ chans[wrappers[j].id].queue = <<>>
                                /\ ~chans[wrappers[j].id].senders}}

\* What the channels of the queried wrappers had to offer: the oldest event
\* of each, None for an empty channel.
Heads(chans, scanned) ==
    [k \in 1..Len(scanned) |->
        IF chans[scanned[k]].queue = <<>> THEN None
        ELSE Some(Head(chans[scanned[k]].queue))]

\* The record of a poll: its result, the wrappers it found and those it
\* queried, in order, what their channels had to offer, the wrappers whose
\* channel had no event and no sender (gone), and, for the polls of an
\* awaiting task, the wrappers that have reported Disconnected before the
\* poll (was_closed) and up to its end (closed).
NoPoll == [op |-> "init", ret |-> Pending, scanned |-> <<>>, wrappers |-> <<>>,
           heads |-> <<>>, gone |-> {}, was_closed |-> {}, closed |-> {}]

\* No task awaits recv.  A task that awaits it is "parked" after a poll
\* returned Pending and "woken" once its waker was called.
NoRecv == "idle"

\* No account, no merged emitter.
EvIdle ==
    /\ chan = <<>>
    /\ emitter = <<>>
    /\ delivered = <<>>
    /\ elast = NoPoll
    /\ recv = NoRecv

----------------------------------------------------------------------------
(* Calls that run concurrently.  The handlers are async functions on        *)
(* shared handles (Accounts, Config and Sql are Clone over Arc): between    *)
(* two awaits of a call the awaits of another call can run.                 *)

VARIABLES
    tasks     \* per concurrent task: the call it is in and where in it

\* No concurrent task.
NoTasks == <<>>
TasksIdle == tasks = NoTasks

otherVars == <<hkVars, evVars, tasks>>

----------------------------------------------------------------------------
(* The state machine.                                                       *)

World == [dir |-> dir, file |-> file, inner |-> inner, live |-> live, ever |-> ever]

\* The part of the state the claims compare a call's outcome with.
\* `after` says which successful call produced that state, when it was
\* create or open/new.
Pre == [status |-> status, inner |-> inner, live |-> live, dir |-> dir,
        after |-> IF last.res # Ok THEN "other"
                  ELSE IF last.op = "create" THEN "create"
                  ELSE IF last.op \in {"open", "new"} THEN "open"
                  ELSE "other"]

NoPre == [status |-> "none", inner |-> NoInner, live |-> {}, dir |-> FALSE,
          after |-> "other"]

Call(op, arg, f, res, ret) ==
    [op |-> op, arg |-> arg, f |-> f, res |-> res, ret |-> ret, pre |-> Pre]

Init ==
    /\ dir = FALSE
    /\ file = <<>>
    /\ status = "none"
    /\ inner = NoInner
    /\ live = {}
    /\ ever = {}
    /\ last = [op |-> "init", arg |-> 0, f |-> {}, res |-> Ok, ret |-> 0, pre |-> NoPre]
    /\ SqlIdle
    /\ HkIdle
    /\ EvIdle
    /\ TasksIdle

\* Writes a handler's world back; the loaded registry becomes newStatus.
Commit(w, newStatus) ==
    /\ dir' = w.dir
    /\ file' = w.file
    /\ ever' = w.ever
    /\ status' = newStatus
    /\ inner' = IF newStatus = "ready" THEN w.inner ELSE NoInner
    /\ live' = IF newStatus = "ready" THEN w.live ELSE {}
    /\ UNCHANGED <<sqlVars, otherVars>>

\* A handler returns at the first fallible call that fails, so the fault
\* inputs are: no fault, or one failing call; import_account goes on after a
\* failed restore, so there a failing call of the rollback may follow it.
OneOf(points) == {{}} \cup {{p} : p \in points}

CreateFaults == OneOf({"mkdir", "nsync", "sync1", "sync2", "ctx"})
OpenFaults == OneOf({"read", "ctx"})
NewFaults == OneOf({"mkdir", "nsync", "sync1", "sync2", "ctx", "read"})
AddFaults == OneOf({"sync1", "sync2", "ctx"})
RemoveFaults == OneOf({"rmdir", "rsync"})
SelectFaults == OneOf({"ssync"})
ImportFaults ==
    OneOf({"sync1", "sync2", "ctx", "imex"})
        \cup {{"imex", p} : p \in {"rmdir", "rsync", "ssync"}}

\* Accounts::create on a directory that does not exist yet.
Create ==
    /\ ~dir
    /\ \E os_name \in OsNames, f \in CreateFaults :
          LET r == Accounts_create(World, os_name, f)
          IN  /\ Commit(r.w, status)
              /\ last' = Call("create", 0, f, r.res, 0)

\* Accounts::open.  On success the value it returns is the loaded registry.
Open ==
    \E f \in OpenFaults :
       LET r == Accounts_open(World, f)
       IN  /\ Commit(r.w, IF r.res = Ok THEN "ready" ELSE status)
           /\ last' = Call("open", 0, f, r.res, 0)

\* Accounts::new.
New ==
    \E os_name \in OsNames, f \in NewFaults :
       LET r == Accounts_new(World, os_name, f)
       IN  /\ Commit(r.w, IF r.res = Ok THEN "ready" ELSE status)
           /\ last' = Call("new", 0, f, r.res, 0)

\* The loaded registry is dropped (the process ends).
Close ==
    /\ status = "ready"
    /\ Commit(World, "none")
    /\ last' = Call("close", 0, {}, Ok, 0)

AddAccount ==
    /\ status = "ready"
    /\ inner.next_id < MaxId
    /\ \E f \in AddFaults :
          LET r == Accounts_add_account(World, f)
          IN  /\ Commit(r.w, "ready")
              /\ last' = Call("add_account", 0, f, r.res, r.id)

RemoveAccount ==
    /\ status = "ready"
    /\ \E id \in IdArgs, f \in RemoveFaults :
          LET r == Accounts_remove_account(World, id, f)
          IN  /\ Commit(r.w, "ready")
              /\ last' = Call("remove_account", id, f, r.res, 0)

SelectAccount ==
    /\ status = "ready"
    /\ \E id \in IdArgs, f \in SelectFaults :
          LET r == Accounts_select_account(World, id, f)
          IN  /\ Commit(r.w, "ready")
              /\ last' = Call("select_account", id, f, r.res, 0)

ImportAccount ==
    /\ status = "ready"
    /\ inner.next_id < MaxId
    /\ \E f \in ImportFaults :
          LET r == Accounts_import_account(World, f)
          IN  /\ Commit(r.w, "ready")
              /\ last' = Call("import_account", 0, f, r.res, r.id)

Next ==
    \/ Create
    \/ Open
    \/ New
    \/ Close
    \/ AddAccount
    \/ RemoveAccount
    \/ SelectAccount
    \/ ImportAccount

Spec == Init /\ [][Next]_vars

----------------------------------------------------------------------------
(* Properties of the registry.                                              *)

Ready == status = "ready"

\* The call that led to the current state.
Did(op) == last.op = op
DidOk(op) == last.op = op /\ last.res = Ok
DidErr(op) == last.op = op /\ IsErr(last.res)

\* import_account reached the backup restore and the restore failed.
RestoreFailed == last.op = "import_account" /\ "imex" \in last.f

\* C1: in every state of a loaded registry, also after calls that returned an
\* error, selected_account is 0 when the account list is empty and otherwise
\* the id of an account of the list.
C1_SelectedIsKnown ==
    Ready =>
        IF inner.accounts = <<>>
        THEN inner.selected_account = 0
        ELSE inner.selected_account \in Ids(inner.accounts)

C3_FailedAddLeavesRegistry ==
    DidErr("add_account") =>
        /\ inner.accounts = last.pre.inner.accounts
        /\ inner.selected_account = last.pre.inner.selected_account
        /\ live = last.pre.live
        /\ last.pre.inner.next_id \notin Ids(inner.accounts) \cup live

\* C4: when remove_account(id) returns an error for a known id, id is still in
\* the account list and in the live-account map and the selected account is
\* unchanged.
C4_FailedRemoveLeavesRegistry ==
    (/\ DidErr("remove_account")
     /\ last.arg \in last.pre.live
     /\ last.arg \in Ids(last.pre.inner.accounts)) =>
        /\ last.arg \in Ids(inner.accounts)
        /\ last.arg \in live
        /\ inner.selected_account = last.pre.inner.selected_account

\* C5: when import_account fails because the restore fails, the account list,
\* the live-account map and the selected account are as before the call.
C5_FailedImportRestoresRegistry ==
    RestoreFailed =>
        /\ inner.accounts = last.pre.inner.accounts
        /\ live = last.pre.live
        /\ inner.selected_account = last.pre.inner.selected_account

\* C6: when the restore inside import_account fails, import_account returns
\* the restore's error, whatever ready state the call started from (stated
\* for the calls in which the restore is the only thing that fails).
C6_FailedImportReturnsRestoreError ==
    (RestoreFailed /\ last.f = {"imex"}) => last.res = ErrImex

\* C7: a successful remove_account(id) of the selected account selects the
\* first remaining account of the list, or 0 when none remains, and removes
\* exactly that account from the list and from the live-account map.
C7_RemoveSelectedFallsBack ==
    (DidOk("remove_account") /\ last.arg = last.pre.inner.selected_account) =>
        /\ inner.accounts =
              SelectSeq(last.pre.inner.accounts, LAMBDA a : a.id # last.arg)
        /\ Len(inner.accounts) = Len(last.pre.inner.accounts) - 1
        /\ live = last.pre.live \ {last.arg}
        /\ Cardinality(live) = Cardinality(last.pre.live) - 1
        /\ inner.selected_account =
              IF inner.accounts = <<>> THEN 0 ELSE inner.accounts[1].id

\* The selected account was removed while an account listed before it and
\* one listed after it remain.
C7_Witness ==
    /\ DidOk("remove_account")
    /\ last.arg = last.pre.inner.selected_account
    /\ Len(inner.accounts) >= 2
    /\ last.pre.inner.accounts[1].id # last.arg
    /\ inner.selected_account = inner.accounts[1].id

\* C8: a successful add_account returns the next_id of before the call; that
\* id is then in the account list, a key of the live-account map and the
\* selected account, and the live-account map has one entry more.
C8_AddAccountRegisters ==
    DidOk("add_account") =>
        /\ last.ret = last.pre.inner.next_id
        /\ last.ret \in Ids(inner.accounts)
        /\ last.ret \in live
        /\ inner.selected_account = last.ret
        /\ Cardinality(live) = Cardinality(last.pre.live) + 1

\* An account was added to a registry that already had live accounts.
C8_Witness ==
    /\ DidOk("add_account")
    /\ last.pre.live # {}
    /\ last.ret > 0

C10_CreateThenOpen ==
    /\ (\/ DidOk("open") /\ last.pre.after = "create"
        \/ DidOk("new") /\ ~last.pre.dir) =>
           /\ Ready
           /\ inner.accounts = <<AccountConfig(0)>>
           /\ inner.selected_account = 0
           /\ inner.next_id = 1
           /\ live = {0}
    /\ (DidOk("open") /\ last.pre.after = "open") =>
           /\ Ready
           /\ inner = last.pre.inner
           /\ Cardinality(live) = Cardinality(last.pre.live)

\* The second open of a registry that was created and has not been touched.
C10_Witness ==
    /\ DidOk("open")
    /\ last.pre.after = "open"
    /\ ever = {0}
    /\ inner.accounts = <<AccountConfig(0)>>
    /\ inner.next_id = 1
    /\ Cardinality(live) = 1

----------------------------------------------------------------------------
(* The state machines of the database handle.                               *)

SqlWorld == [pool |-> pool, sql |-> sql, db |-> db]

\* The setters of the config store.
Setters ==
    {"set_raw_config", "set_raw_config_int", "set_raw_config_int64",
     "set_raw_config_bool"}

\* The record of a call: its name, arguments, failing calls, result and
\* value, the world before it and, when that was a setter that succeeded,
\* the call before it.
SqlCall(op, arg, f, res, ret) ==
    [op |-> op, arg |-> arg, f |-> f, res |-> res, ret |-> ret, pre |-> SqlWorld,
     prev |-> IF slast.op \in Setters /\ slast.res = Ok
              THEN [op |-> slast.op, arg |-> slast.arg, res |-> slast.res]
              ELSE NoCall.prev]

SqlCommit(s) ==
    /\ pool' = s.pool
    /\ sql' = s.sql
    /\ db' = s.db
    /\ UNCHANGED <<vars, otherVars>>

\* The schema statements of the steps up to version v.
DoneUpTo(v) ==
    {<<StepVersions[k], i>> : k \in 1..Len(StepVersions), i \in 1..7} \cap
    {x \in (1..69) \X (1..7) :
        /\ x[1] <= v
        /\ x[1] \in {StepVersions[k] : k \in 1..Len(StepVersions)}
        /\ x[2] <= Len(StepOps(x[1]))
        /\ StepOps(x[1])[x[2]] \in {"ddl", "ddl_ine"}}

\* A database file left by a release whose last step was v (0: by one that
\* had no migrations yet), with the config rows `extra`.
Existing(v, extra) ==
    [exists |-> TRUE, base |-> TRUE,
     config |-> (IF v > 0 THEN <<Row("dbversion", FormatI32(v))>> ELSE <<>>) \o extra,
     done |-> DoneUpTo(v), msgs |-> <<>>]

\* Config rows of older releases that steps 59 and 67 look at:
\* server_flags 0x20100 (STARTTLS for IMAP, SSL/TLS for SMTP);
\* configured_server_flags 0x40400 (plain for both) and bcc_self 0.
ExtraConfigs ==
    {<<>>,
     <<Row("server_flags", FormatI32(131328))>>,
     <<Row("configured_server_flags", FormatI32(263168)),
       Row("bcc_self", FormatI32(0))>>}

InitVersions == {0} \cup {StepVersions[k] : k \in 1..Len(StepVersions)}

\* The databases an open can find: none, or one of any release, those of
\* the releases before steps 50, 59 and 67 also with the rows these steps
\* look at.
InitDbs ==
    {NoDb} \cup {Existing(v, <<>>) : v \in InitVersions}
           \cup {Existing(v, x) : v \in {49, 55, 66}, x \in ExtraConfigs}

\* The statement of a run that the engine fails.
MigrationFaults ==
    {<<StepVersions[k], i>> : k \in 1..Len(StepVersions), i \in 1..8} \cap
    {x \in (1..69) \X (1..8) :
        /\ x[1] \in {StepVersions[k] : k \in 1..Len(StepVersions)}
        /\ x[2] <= Len(StepOps(x[1])) + 1}

\* A run on database d gets to statement x: the step of x is above the
\* recorded version and no schema statement before x, in a step above the
\* recorded version, finds its table, index or column in the file already.
Reaches(d, x) ==
    /\ x[1] > RecordedVersion(d)
    /\ \A y \in d.done :
          (y[1] > RecordedVersion(d) /\ StepOps(y[1])[y[2]] = "ddl") =>
              (y[1] > x[1] \/ (y[1] = x[1] /\ y[2] >= x[2]))

OpenFaultPoints == OneOf({"pool", "base", "fixup", "connect", "fixup2"})

\* Sql::open.  Either one of the calls of f fails or one statement of the
\* migration does; an input whose failing call is never reached is the
\* input without it.
SqlOpenWith(faults, stmtFaults) ==
    \E readonly \in BOOLEAN, f \in faults, failAt \in {NoFault} \cup stmtFaults :
       /\ failAt # NoFault =>
             /\ f = {} /\ ~readonly /\ ~Sql_is_open(SqlWorld)
             /\ Reaches(db, failAt)
       /\ \E r \in {Sql_open(SqlWorld, readonly, f, failAt)} :
             /\ f # {} => r.res # Ok
             /\ SqlCommit(r.s)
             /\ slast' = SqlCall("open", [readonly |-> readonly, failAt |-> failAt],
                                 f, r.res, r.runs)

SqlOpen == SqlOpenWith(OpenFaultPoints, MigrationFaults)

SqlClose ==
    /\ SqlCommit(Sql_close(SqlWorld))
    /\ slast' = SqlCall("close", 0, {}, Ok, 0)

\* The process ends while a writable Sql::open on a closed handle is about
\* to run statement x of the migration: the file keeps what the statements
\* before x wrote, and the handle is gone with the process.
SqlCrash ==
    \E x \in MigrationFaults :
       /\ ~Sql_is_open(SqlWorld) /\ pool = <<>>
       /\ Reaches(db, x)
       /\ \E r \in {open(SqlWorld, FALSE, {}, x)} :
             /\ SqlCommit(Sql_close(r.s))
             /\ slast' = SqlCall("crash", [readonly |-> FALSE, failAt |-> x], {},
                                 r.res, r.runs)

SqlInit ==
    /\ dir = FALSE /\ file = <<>> /\ status = "none" /\ inner = NoInner
    /\ live = {} /\ ever = {}
    /\ last = [op |-> "init", arg |-> 0, f |-> {}, res |-> Ok, ret |-> 0, pre |-> NoPre]
    /\ pool = <<>>
    /\ sql = <<>>
    /\ db \in InitDbs
    /\ slast = NoCall
    /\ HkIdle
    /\ EvIdle
    /\ TasksIdle

SqlNext ==
    \/ SqlOpen
    \/ SqlClose

\* Opens without an injected failure, and processes that end in the middle
\* of a migration.
CrashNext ==
    \/ SqlOpenWith({{}}, {})
    \/ SqlCrash
    \/ SqlClose

allVars == <<vars, sqlVars, otherVars>>

CrashSpec == SqlInit /\ [][CrashNext]_allVars

SqlSpec == SqlInit /\ [][SqlNext]_allVars

----------------------------------------------------------------------------
(* Properties of the handle and of the migrator.                            *)

SqlDid(op) == slast.op = op

HandleClosed(s) == s.pool = <<>> /\ s.sql = <<>>

HandleUnchanged == pool = slast.pre.pool /\ sql = slast.pre.sql

\* The steps with a declared version above v, in the order of the code.
StepsAbove(v) == SelectSeq(StepVersions, LAMBDA w : w > v)

C12_FailedOpenLeavesClosed ==
    (SqlDid("open") /\ HandleClosed(slast.pre) /\ slast.res # Ok) =>
        HandleClosed(SqlWorld)

\* C13: after close the handle is closed (no pool of either kind, is_open
\* false) whatever it was before; close on a closed handle changes nothing;
\* close does not fail.
C13_CloseCloses ==
    SqlDid("close") =>
        /\ slast.res = Ok
        /\ HandleClosed(SqlWorld)
        /\ ~Sql_is_open(SqlWorld)
        /\ db = slast.pre.db
        /\ HandleClosed(slast.pre) => SqlWorld = slast.pre

\* close on an open handle, on a handle with only the first pool attached
\* and on a closed handle.
C13_Witness ==
    /\ SqlDid("close")
    /\ slast.pre.pool # <<>>
    /\ slast.pre.sql = <<>>

\* C20: a migration run that starts at recorded version v applies the steps
\* with a declared version above v in increasing order, each once and no
\* other step: all of them when it returns Ok, the first ones of them when a
\* statement fails; when a step ends the recorded dbversion is that step's
\* version.
C20_RunAppliesStepsAbove ==
    SqlDid("open") =>
        \A k \in 1..Len(slast.ret) :
            LET run == slast.ret[k]
                above == StepsAbove(run.v)
            IN  /\ Len(run.applied) <= Len(above)
                /\ \A i \in 1..Len(run.applied) :
                      /\ run.applied[i].step = above[i]
                      /\ run.applied[i].recorded = above[i]
                /\ run.res = Ok => Len(run.applied) = Len(above)
                /\ \A i \in 1..(Len(run.applied) - 1) :
                      run.applied[i].step < run.applied[i + 1].step

\* A run from a version in the middle of the history that applied the rest.
C20_Witness ==
    /\ SqlDid("open")
    /\ slast.ret # <<>>
    /\ slast.ret[1].v = 49
    /\ slast.ret[1].res = Ok
    /\ Len(slast.ret[1].applied) = 15

----------------------------------------------------------------------------
(* The query wrappers and the config store on a handle.                     *)

\* Keys of config rows: the empty key and a key.
Keys == {"", "k"}

\* Values written through set_raw_config: not a number; a number with a sign.
RawValues == {<<"x">>, <<"+", "7">>}

I32Samples == {-1, 69, I32Max, I32Min}

\* 0, 2^31, i64::MAX, i64::MIN.
I64Samples ==
    {I64(FALSE, <<"0">>),
     I64(FALSE, <<"2","1","4","7","4","8","3","6","4","8">>),
     I64(FALSE, I64MaxMag), I64(TRUE, I64MinMag)}

\* Statements handed to execute and to the fetch wrappers.
Stmts ==
    UNION {{Insert(k, <<"x">>), Update(k, <<"x">>), Delete(k),
            SelectValue(k), SelectCount(k)} : k \in Keys}

\* Callbacks handed to transaction: one write; two writes; two writes of
\* which the engine rejects the second; each also with an error of the
\* callback's own after its writes.
Bodies ==
    {[writes |-> w, fails |-> b] :
        w \in {<<Insert("k", <<"x">>)>>,
               <<Delete("k"), Insert("", <<"x">>)>>,
               <<Update("k", <<"+", "7">>), Insert("k", <<"x">>)>>},
        b \in BOOLEAN}

EngineFault(fails) == IF fails THEN {"engine"} ELSE {}

\* A database of the current release, or none yet.
StoreDbs == {NoDb, Existing(69, <<>>)}

StoreOpen == SqlOpenWith(OneOf({"connect"}), {})

Execute ==
    \E st \in Stmts, fails \in BOOLEAN :
       \E r \in {Sql_execute(SqlWorld, st, fails)} :
          /\ SqlCommit(r.s)
          /\ slast' = SqlCall("execute", st, EngineFault(fails), r.res, r.ret)

FetchOne ==
    \E st \in Stmts, fails \in BOOLEAN :
       \E r \in {Sql_fetch_one(SqlWorld, st, fails)} :
          /\ SqlCommit(r.s)
          /\ slast' = SqlCall("fetch_one", st, EngineFault(fails), r.res, r.ret)

FetchOptional ==
    \E st \in Stmts, fails \in BOOLEAN :
       \E r \in {Sql_fetch_optional(SqlWorld, st, fails)} :
          /\ SqlCommit(r.s)
          /\ slast' = SqlCall("fetch_optional", st, EngineFault(fails), r.res, r.ret)

Count ==
    \E st \in Stmts, fails \in BOOLEAN :
       \E r \in {Sql_count(SqlWorld, st, fails)} :
          /\ SqlCommit(r.s)
          /\ slast' = SqlCall("count", st, EngineFault(fails), r.res, r.ret)

Exists ==
    \E st \in Stmts, fails \in BOOLEAN :
       \E r \in {Sql_exists(SqlWorld, st, fails)} :
          /\ SqlCommit(r.s)
          /\ slast' = SqlCall("exists", st, EngineFault(fails), r.res, r.ret)

Transaction ==
    \E body \in Bodies, f \in OneOf({"begin", "commit", "rollback"}) :
       \E r \in {Sql_transaction(SqlWorld, body, f)} :
          /\ SqlCommit(r.s)
          /\ slast' = SqlCall("transaction", body, f, r.res, r.ret)

SetArg(k, v) == [key |-> k, value |-> v]

SetFaults == OneOf({"exists", "write"})

SetRawConfig ==
    \E k \in Keys, v \in {<<>>} \cup {<<x>> : x \in RawValues}, f \in SetFaults :
       \E r \in {Sql_set_raw_config(SqlWorld, k, v, f)} :
          /\ SqlCommit(r.s)
          /\ slast' = SqlCall("set_raw_config", SetArg(k, v), f, r.res, r.ret)

GetRawConfig ==
    \E k \in Keys, fails \in BOOLEAN :
       \E r \in {Sql_get_raw_config(SqlWorld, k, fails)} :
          /\ SqlCommit(r.s)
          /\ slast' = SqlCall("get_raw_config", [key |-> k], EngineFault(fails),
                              r.res, r.ret)

SetRawConfigInt ==
    \E k \in Keys, n \in I32Samples, f \in SetFaults :
       \E r \in {Sql_set_raw_config_int(SqlWorld, k, n, f)} :
          /\ SqlCommit(r.s)
          /\ slast' = SqlCall("set_raw_config_int", SetArg(k, n), f, r.res, r.ret)

GetRawConfigInt ==
    \E k \in Keys, fails \in BOOLEAN :
       \E r \in {Sql_get_raw_config_int(SqlWorld, k, fails)} :
          /\ SqlCommit(r.s)
          /\ slast' = SqlCall("get_raw_config_int", [key |-> k], EngineFault(fails),
                              r.res, r.ret)

SetRawConfigBool ==
    \E k \in Keys, b \in BOOLEAN, f \in SetFaults :
       \E r \in {Sql_set_raw_config_bool(SqlWorld, k, b, f)} :
          /\ SqlCommit(r.s)
          /\ slast' = SqlCall("set_raw_config_bool", SetArg(k, b), f, r.res, r.ret)

GetRawConfigBool ==
    \E k \in Keys, fails \in BOOLEAN :
       \E r \in {Sql_get_raw_config_bool(SqlWorld, k, fails)} :
          /\ SqlCommit(r.s)
          /\ slast' = SqlCall("get_raw_config_bool", [key |-> k], EngineFault(fails),
                              r.res, r.ret)

SetRawConfigInt64 ==
    \E k \in Keys, n \in I64Samples, f \in SetFaults :
       \E r \in {Sql_set_raw_config_int64(SqlWorld, k, n, f)} :
          /\ SqlCommit(r.s)
          /\ slast' = SqlCall("set_raw_config_int64", SetArg(k, n), f, r.res, r.ret)

GetRawConfigInt64 ==
    \E k \in Keys, fails \in BOOLEAN :
       \E r \in {Sql_get_raw_config_int64(SqlWorld, k, fails)} :
          /\ SqlCommit(r.s)
          /\ slast' = SqlCall("get_raw_config_int64", [key |-> k], EngineFault(fails),
                              r.res, r.ret)

StoreInit ==
    /\ dir = FALSE /\ file = <<>> /\ status = "none" /\ inner = NoInner
    /\ live = {} /\ ever = {}
    /\ last = [op |-> "init", arg |-> 0, f |-> {}, res |-> Ok, ret |-> 0, pre |-> NoPre]
    /\ pool = <<>>
    /\ sql = <<>>
    /\ db \in StoreDbs
    /\ slast = NoCall
    /\ HkIdle
    /\ EvIdle
    /\ TasksIdle

\* The query wrappers and transaction on a handle that is opened and closed.
QueryNext ==
    \/ StoreOpen
    \/ SqlClose
    \/ Execute
    \/ FetchOne
    \/ FetchOptional
    \/ Count
    \/ Exists
    \/ Transaction
    \/ SetRawConfig

QuerySpec == StoreInit /\ [][QueryNext]_allVars

\* The config store: the only writers are its setters.
ConfigNext ==
    \/ StoreOpen
    \/ SqlClose
    \/ SetRawConfig
    \/ GetRawConfig
    \/ SetRawConfigBool
    \/ GetRawConfigBool

ConfigSpec == StoreInit /\ [][ConfigNext]_allVars

\* The numeric accessors of the config store.
NumberNext ==
    \/ StoreOpen
    \/ SqlClose
    \/ SetRawConfigInt
    \/ GetRawConfigInt
    \/ SetRawConfigInt64
    \/ GetRawConfigInt64

NumberSpec == StoreInit /\ [][NumberNext]_allVars

----------------------------------------------------------------------------
(* Properties of the query wrappers and of the config store.                *)

\* The rows of the table other than those of key k.
OtherRows(cfg, k) == SelectSeq(cfg, LAMBDA r : r.keyname # k)

\* The call before this one was this setter, on the same key, and succeeded.
SetJustBefore(setter) ==
    /\ slast.prev.op = setter
    /\ slast.prev.res = Ok
    /\ slast.prev.arg.key = slast.arg.key

\* C14: on a handle that is not open, execute, fetch_one, fetch_optional,
\* count, exists, transaction and set_raw_config fail with NoConnection and
\* change neither the handle nor the database; on an open handle none of
\* them fails with NoConnection.
C14_NoConnectionIffNotOpen ==
    slast.op \in {"execute", "fetch_one", "fetch_optional", "count", "exists",
                  "transaction", "set_raw_config"} =>
        IF Sql_is_open(slast.pre)
        THEN slast.res # ErrNoConnection
        ELSE slast.res = ErrNoConnection /\ SqlWorld = slast.pre

\* A statement that would write, on a handle that was closed after use.
C14_Witness ==
    /\ SqlDid("execute")
    /\ IsWrite(slast.arg)
    /\ slast.f = {}
    /\ ~Sql_is_open(slast.pre)
    /\ slast.pre.db.base
    /\ slast.res = ErrNoConnection

\* C15: transaction(body) commits the writes of body when body returns
\* success; when body returns an error none of its writes is visible
\* afterwards and the error returned is the error of body.
C15_TransactionAllOrNothing ==
    (SqlDid("transaction") /\ Sql_is_open(slast.pre) /\ "begin" \notin slast.f) =>
        /\ (slast.ret.body = Ok /\ "commit" \notin slast.f) =>
              /\ slast.res = Ok
              /\ db = Callback(slast.pre, slast.arg).db
        /\ slast.ret.body # Ok =>
              /\ db = slast.pre.db
              /\ slast.res = slast.ret.body

\* C17: on an open store set_raw_config_int(k, n) followed by
\* get_raw_config_int(k) returns Some(n), for every non-empty k and every
\* i32 n; likewise set_raw_config_int64 and get_raw_config_int64.
C17_IntRoundTrip ==
    /\ (SqlDid("get_raw_config_int") /\ SetJustBefore("set_raw_config_int")
            /\ slast.arg.key # "" /\ slast.f = {}) =>
          /\ slast.res = Ok
          /\ slast.ret = <<slast.prev.arg.value>>
    /\ (SqlDid("get_raw_config_int64") /\ SetJustBefore("set_raw_config_int64")
            /\ slast.arg.key # "" /\ slast.f = {}) =>
          /\ slast.res = Ok
          /\ slast.ret = <<slast.prev.arg.value>>

\* i32::MIN comes back.
C17_Witness ==
    /\ SqlDid("get_raw_config_int")
    /\ SetJustBefore("set_raw_config_int")
    /\ slast.prev.arg.value = I32Min
    /\ slast.ret = <<I32Min>>

\* C18, as stated: after set_raw_config_bool(k, true) the row of k holds
\* "1" and get_raw_config_bool(k) returns true; after
\* set_raw_config_bool(k, false) there is no row of k and
\* get_raw_config_bool(k) returns false; for every k.
C18_BoolAsStated ==
    /\ (SqlDid("set_raw_config_bool") /\ slast.res = Ok) =>
          RowsFor(db.config, slast.arg.key) =
              IF slast.arg.value THEN <<Row(slast.arg.key, <<"1">>)>> ELSE <<>>
    /\ (SqlDid("get_raw_config_bool") /\ SetJustBefore("set_raw_config_bool")
            /\ slast.f = {}) =>
          /\ slast.res = Ok
          /\ slast.ret = slast.prev.arg.value

\* C18, amended: the same for every non-empty k; for the empty key the rows
\* are written and deleted as stated, and get_raw_config_bool fails with
\* NoConnection.
C18_BoolNonEmptyKey ==
    /\ (SqlDid("set_raw_config_bool") /\ slast.res = Ok) =>
          RowsFor(db.config, slast.arg.key) =
              IF slast.arg.value THEN <<Row(slast.arg.key, <<"1">>)>> ELSE <<>>
    /\ (SqlDid("get_raw_config_bool") /\ SetJustBefore("set_raw_config_bool")
            /\ slast.f = {}) =>
          IF slast.arg.key # ""
          THEN slast.res = Ok /\ slast.ret = slast.prev.arg.value
          ELSE slast.res = ErrNoConnection

\* false is read back right after the row that true had written was deleted.
C18_Witness ==
    /\ SqlDid("get_raw_config_bool")
    /\ SetJustBefore("set_raw_config_bool")
    /\ slast.arg.key = "k"
    /\ slast.prev.arg.value = FALSE
    /\ slast.ret = FALSE
    /\ slast.res = Ok

\* What the setters of ConfigSpec leave: at most one row per key; a
\* successful set_raw_config(k, Some(v)) leaves the row (k, v), a successful
\* set_raw_config(k, None) no row of k, both leave the rows of other keys
\* alone; a failed one changes nothing; none runs into the UNIQUE
\* constraint.
SetRawConfigKeepsOneRow ==
    /\ \A k \in Keys : Len(RowsFor(db.config, k)) <= 1
    /\ slast.op \in {"set_raw_config", "set_raw_config_bool"} =>
          /\ slast.res # ErrSqliteConstraint
          /\ OtherRows(db.config, slast.arg.key)
                = OtherRows(slast.pre.db.config, slast.arg.key)
          /\ slast.res # Ok => db = slast.pre.db
    /\ (SqlDid("set_raw_config") /\ slast.res = Ok) =>
          RowsFor(db.config, slast.arg.key) =
              IF slast.arg.value = <<>> THEN <<>>
              ELSE <<Row(slast.arg.key, Head(slast.arg.value))>>

\* get_raw_config(k) on an open store returns the value of the row of k, or
\* none when there is no row.
GetReturnsRow ==
    /\ slast.res = Ok
    /\ slast.ret = IF RowsFor(db.config, slast.arg.key) = <<>> THEN <<>>
                   ELSE <<Head(RowsFor(db.config, slast.arg.key)).value>>
    /\ db = slast.pre.db

\* C19, as stated: after any sequence of set_raw_config calls on an open
\* store there is at most one row per key and get_raw_config(k) returns the
\* value most recently set for k, or none when k was deleted or never set;
\* for every k.
C19_ConfigAsStated ==
    /\ SetRawConfigKeepsOneRow
    /\ (SqlDid("get_raw_config") /\ Sql_is_open(slast.pre) /\ slast.f = {}) =>
          GetReturnsRow

\* C19, amended: the same for every non-empty k; get_raw_config("") fails
\* with NoConnection although set_raw_config("", v) writes a row.
C19_ConfigNonEmptyKey ==
    /\ SetRawConfigKeepsOneRow
    /\ (SqlDid("get_raw_config") /\ Sql_is_open(slast.pre) /\ slast.f = {}) =>
          IF slast.arg.key # "" THEN GetReturnsRow
          ELSE slast.res = ErrNoConnection /\ db = slast.pre.db

\* A value replaced another one and is read back.
C19_Witness ==
    /\ SqlDid("get_raw_config")
    /\ SetJustBefore("set_raw_config")
    /\ slast.arg.key = "k"
    /\ slast.ret = <<(<<"+", "7">>)>>
    /\ slast.prev.arg.value = slast.ret

----------------------------------------------------------------------------
(* get_rowid and get_rowid2 over a table whose rows arrive in any order of  *)
(* their ids.                                                               *)

\* Bound on the number of rows of the table.
MaxRows == 2

RowIds == {1, 2, 3}

\* The columns the lookups compare, and their values.
Fields == {"a", "b"}
FieldValues == {1, 2}

MsgRows == [id : RowIds, a : FieldValues, b : FieldValues]

RowidOpen == SqlOpenWith({{}}, {})

InsertRow ==
    /\ Len(db.msgs) < MaxRows
    /\ \E row \in MsgRows, fails \in BOOLEAN :
          \E r \in {Sql_execute(SqlWorld, InsertMsg(row), fails)} :
             /\ SqlCommit(r.s)
             /\ slast' = SqlCall("execute", InsertMsg(row), EngineFault(fails),
                                 r.res, r.ret)

GetRowid ==
    \E field \in Fields, value \in FieldValues, fails \in BOOLEAN :
       \E r \in {Sql_get_rowid(SqlWorld, field, value, fails)} :
          /\ SqlCommit(r.s)
          /\ slast' = SqlCall("get_rowid", [field |-> field, value |-> value],
                              EngineFault(fails), r.res, r.ret)

GetRowid2 ==
    \E value \in FieldValues, value2 \in FieldValues, fails \in BOOLEAN :
       \E r \in {Sql_get_rowid2(SqlWorld, "a", value, "b", value2, fails)} :
          /\ SqlCommit(r.s)
          /\ slast' = SqlCall("get_rowid2",
                              [field |-> "a", value |-> value,
                               field2 |-> "b", value2 |-> value2],
                              EngineFault(fails), r.res, r.ret)

RowidInit ==
    /\ dir = FALSE /\ file = <<>> /\ status = "none" /\ inner = NoInner
    /\ live = {} /\ ever = {}
    /\ last = [op |-> "init", arg |-> 0, f |-> {}, res |-> Ok, ret |-> 0, pre |-> NoPre]
    /\ pool = <<>>
    /\ sql = <<>>
    /\ db = Existing(69, <<>>)
    /\ slast = NoCall
    /\ HkIdle
    /\ EvIdle
    /\ TasksIdle

RowidNext ==
    \/ RowidOpen
    \/ SqlClose
    \/ InsertRow
    \/ GetRowid
    \/ GetRowid2

RowidSpec == RowidInit /\ [][RowidNext]_allVars

\* The greatest id of the rows of the table that match, 0 when none does.
MaxIdOf(matches(_)) ==
    LET ids == {db.msgs[i].id : i \in {j \in 1..Len(db.msgs) : matches(db.msgs[j])}}
    IN  IF ids = {} THEN 0 ELSE CHOOSE x \in ids : \A y \in ids : y <= x

\* C16: get_rowid and get_rowid2 return the greatest id among the rows that
\* match the one, respectively two, equality predicates, and 0 when no row
\* matches.
C16_RowidIsMaxMatchingId ==
    /\ (SqlDid("get_rowid") /\ Sql_is_open(slast.pre) /\ slast.f = {}) =>
          /\ slast.res = Ok
          /\ slast.ret = MaxIdOf(LAMBDA r : r[slast.arg.field] = slast.arg.value)
    /\ (SqlDid("get_rowid2") /\ Sql_is_open(slast.pre) /\ slast.f = {}) =>
          /\ slast.res = Ok
          /\ slast.ret = MaxIdOf(LAMBDA r : /\ r[slast.arg.field] = slast.arg.value
                                            /\ r[slast.arg.field2] = slast.arg.value2)

\* Two rows match and the one inserted first has the smaller id.
C16_Witness ==
    /\ SqlDid("get_rowid")
    /\ slast.res = Ok
    /\ Len(db.msgs) = 2
    /\ db.msgs[1][slast.arg.field] = slast.arg.value
    /\ db.msgs[2][slast.arg.field] = slast.arg.value
    /\ db.msgs[1].id < db.msgs[2].id
    /\ slast.ret = db.msgs[2].id


----------------------------------------------------------------------------
(* Properties of the migration history of a database file.                  *)

\* The highest declared checkpoint.
HighestCheckpoint == StepVersions[Len(StepVersions)]

\* The last call was a writable Sql::open on a handle that was not open.
WritableOpen ==
    /\ slast.op = "open"
    /\ ~slast.arg.readonly
    /\ ~Sql_is_open(slast.pre)

\* A schema statement of a step above the recorded version finds its
\* table, index or column in the file: the statement fails.
Blocked(d) ==
    \E y \in d.done : y[1] > RecordedVersion(d) /\ StepOps(y[1])[y[2]] = "ddl"

\* The version of the last step a run completed, or the version it started
\* from when it completed none.
LastCompleted(run) ==
    IF run.applied = <<>> THEN run.before
    ELSE run.applied[Len(run.applied)].step

\* C21: a migration run on a database whose recorded version is the highest
\* checkpoint succeeds and writes nothing: it applies no step, no statement
\* writes (no schema statement, no data change, no dbversion write) and the
\* database file is as it was.
C21_CurrentDatabaseNotWritten ==
    slast.op = "open" =>
        \A k \in 1..Len(slast.ret) :
            slast.ret[k].v = HighestCheckpoint =>
                /\ slast.ret[k].res = Ok
                /\ slast.ret[k].applied = <<>>
                /\ slast.ret[k].writes = 0
                /\ slast.ret[k].same_db

\* The second run of an open of a brand-new database, right after the first
\* run applied every step.
C21_Witness ==
    /\ slast.op = "open"
    /\ slast.pre.db = NoDb
    /\ Len(slast.ret) = 2
    /\ Len(slast.ret[1].applied) = Len(StepVersions)
    /\ slast.ret[1].writes > 0
    /\ slast.ret[2].v = HighestCheckpoint

\* C22: no open, failed open or close lowers the recorded version of the
\* file, no migration run lowers it, and it never exceeds the highest
\* checkpoint.
C22_VersionNeverDecreases ==
    /\ RecordedVersion(db) >= RecordedVersion(slast.pre.db)
    /\ RecordedVersion(db) <= HighestCheckpoint
    /\ slast.op = "open" =>
          \A k \in 1..Len(slast.ret) :
              /\ slast.ret[k].after >= slast.ret[k].before
              /\ \A i \in 1..Len(slast.ret[k].applied) :
                    /\ slast.ret[k].applied[i].recorded >= slast.ret[k].before
                    /\ slast.ret[k].applied[i].recorded <= HighestCheckpoint

\* A failed open that advanced the version part of the way, on a file that
\* an earlier release had migrated already.
C22_Witness ==
    /\ slast.op = "open"
    /\ slast.res # Ok
    /\ RecordedVersion(slast.pre.db) > 0
    /\ RecordedVersion(db) > RecordedVersion(slast.pre.db)
    /\ RecordedVersion(db) < HighestCheckpoint

\* C23: when a statement of a migration step fails (the engine fails it, or
\* it is a schema statement whose object exists already), Sql::open returns
\* an error, the run is the only one of the open and applies no later step,
\* and the recorded version is that of the last step the run completed (the
\* version the run started from when it completed none), below the version
\* of the failing step.
C23_FailedStatementStopsMigration ==
    (WritableOpen /\ slast.f = {}
        /\ (slast.arg.failAt # NoFault \/ Blocked(slast.pre.db))) =>
        /\ slast.res # Ok
        /\ Len(slast.ret) = 1
        /\ slast.ret[1].res # Ok
        /\ slast.ret[1].after = LastCompleted(slast.ret[1])
        /\ RecordedVersion(db) = LastCompleted(slast.ret[1])
        /\ slast.arg.failAt # NoFault =>
              /\ RecordedVersion(db) < slast.arg.failAt[1]
              /\ \A i \in 1..Len(slast.ret[1].applied) :
                    slast.ret[1].applied[i].step < slast.arg.failAt[1]

\* The third statement of a step fails after the run completed earlier
\* steps.
C23_Witness ==
    /\ WritableOpen
    /\ slast.arg.failAt # NoFault
    /\ slast.arg.failAt[2] = 3
    /\ Len(slast.ret[1].applied) > 1
    /\ <<slast.arg.failAt[1], 2>> \in db.done

\* C24: after a process ended in the middle of a migration, an open of the
\* same file without any failure of the engine succeeds and leaves the file
\* at the highest checkpoint.
C24_InterruptedOpenResumes ==
    (WritableOpen /\ slast.f = {} /\ slast.arg.failAt = NoFault) =>
        /\ slast.res = Ok
        /\ RecordedVersion(db) = HighestCheckpoint

\* C25: a successful writable open runs the migrator once, and the handle
\* does not report open while that run goes on.
C25_MigratorRunsOnceBeforeOpen ==
    (WritableOpen /\ slast.res = Ok) =>
        /\ Len(slast.ret) = 1
        /\ ~slast.ret[1].is_open

----------------------------------------------------------------------------
(* The state machine of housekeeping: blob files are created, read and age, *)
(* and housekeeping passes run over them.                                   *)

\* The blob directory holds up to MaxBlobs files.
MaxBlobs == 2

\* File names: "a", "a.increation", "b" and ".waveform".
FileNames == {<<"a">>, <<"a">> \o Increation, <<"b">>, Waveform}

\* A param with one key.
ParamOf(param_id, value) == [k \in {param_id} |-> value]

MsgRow(chat_id, type, value) ==
    [chat_id |-> chat_id, type |-> type, param |-> ParamOf("File", value)]

\* "$BLOBDIR/a"
BlobA == BlobPrefix \o <<"a">>

\* The rows a pass can find: none; "$BLOBDIR/a" in one of the five sources,
\* in a trashed message (chat_id 3), in a message of type 10 or under a
\* param key the query does not read; config values without the prefix,
\* without its slash and with nothing after it.
HkTables ==
    {NoTables,
     [NoTables EXCEPT !.msgs = <<MsgRow(10, 20, BlobA)>>],
     [NoTables EXCEPT !.msgs = <<MsgRow(3, 20, BlobA)>>],
     [NoTables EXCEPT !.msgs = <<MsgRow(10, 10, BlobA)>>],
     [NoTables EXCEPT !.jobs = <<ParamOf("File", BlobA)>>],
     [NoTables EXCEPT !.chats = <<ParamOf("ProfileImage", BlobA)>>],
     [NoTables EXCEPT !.chats = <<ParamOf("File", BlobA)>>],
     [NoTables EXCEPT !.contacts = <<ParamOf("ProfileImage", BlobA)>>],
     [NoTables EXCEPT !.config = <<BlobA>>],
     [NoTables EXCEPT !.config = <<<<"a">>, SubSeq(BlobPrefix, 1, 8), BlobPrefix>>]}

\* The calls of a pass that can fail.
HkFaults ==
    OneOf({"msgs", "jobs", "chats", "contacts", "config", "read_dir", "entry",
           "metadata", "delete", "timers", "tombstones"})

HkCommit ==
    UNCHANGED <<vars, sqlVars, evVars, tasks, tables, in_use>>

\* A blob file is written; `created` is "unsupported" on a platform that
\* does not report creation times.
CreateBlob ==
    \E name \in FileNames, created \in {"recent", "unsupported"} :
       /\ Cardinality(blobdir) < MaxBlobs
       /\ \A e \in blobdir : e.name # name
       /\ blobdir' = blobdir \cup {[name |-> name, created |-> created,
                                    modified |-> "recent", accessed |-> "recent"]}
       /\ hlast' = [NoSweep EXCEPT !.op = "create"]
       /\ HkCommit

\* More than an hour passes without any access to the blob directory.
HourPasses ==
    /\ \E e \in blobdir : Recently(e.modified) \/ Recently(e.accessed)
    /\ blobdir' = {[name |-> e.name,
                    created |-> IF Recently(e.created) THEN "old" ELSE e.created,
                    modified |-> "old", accessed |-> "old"] : e \in blobdir}
    /\ hlast' = [NoSweep EXCEPT !.op = "hour"]
    /\ HkCommit

\* housekeeping(context).
Housekeeping ==
    \E f \in HkFaults, seen \in SUBSET blobdir :
       /\ ("entry" \in f) = (seen # blobdir)
       /\ \E r \in {housekeeping(tables, blobdir, f, seen)} :
             /\ blobdir' = r.blobdir
             /\ hlast' = [op |-> "housekeeping", f |-> f, seen |-> seen,
                          res |-> r.res, files_in_use |-> r.files_in_use,
                          passed |-> r.passed, deleted |-> r.deleted, ran |-> r.ran,
                          pre |-> [tables |-> tables, blobdir |-> blobdir]]
       /\ HkCommit

HkInit ==
    /\ dir = FALSE /\ file = <<>> /\ status = "none" /\ inner = NoInner
    /\ live = {} /\ ever = {}
    /\ last = [op |-> "init", arg |-> 0, f |-> {}, res |-> Ok, ret |-> 0, pre |-> NoPre]
    /\ SqlIdle
    /\ EvIdle
    /\ TasksIdle
    /\ tables \in HkTables
    /\ blobdir = {}
    /\ hlast = NoSweep
    /\ in_use = {}

HkNext ==
    \/ CreateBlob
    \/ HourPasses
    \/ Housekeeping

HkSpec == HkInit /\ [][HkNext]_allVars

----------------------------------------------------------------------------
(* Properties of housekeeping.                                              *)

\* The values that reference blob files: the File params of the messages
\* that are not in the trash chat and not of type 10, the File params of
\* the jobs, the ProfileImage params of the chats and contacts, and the
\* config values.
RefValues(t) ==
    {t.msgs[i].param["File"] :
        i \in {j \in 1..Len(t.msgs) : /\ t.msgs[j].chat_id # 3
                                     /\ t.msgs[j].type # 10
                                     /\ "File" \in DOMAIN t.msgs[j].param}}
    \cup {t.jobs[i]["File"] : i \in {j \in 1..Len(t.jobs) : "File" \in DOMAIN t.jobs[j]}}
    \cup {t.chats[i]["ProfileImage"] :
             i \in {j \in 1..Len(t.chats) : "ProfileImage" \in DOMAIN t.chats[j]}}
    \cup {t.contacts[i]["ProfileImage"] :
             i \in {j \in 1..Len(t.contacts) : "ProfileImage" \in DOMAIN t.contacts[j]}}
    \cup {t.config[i] : i \in 1..Len(t.config)}

\* The bare names referenced through the prefix "$BLOBDIR/".
Referenced(t) ==
    {SubSeq(v, Len(BlobPrefix) + 1, Len(v)) :
        v \in {w \in RefValues(t) : StartsWith(w, BlobPrefix)}}

\* The name, and the name without each recognized suffix it ends with.
Variants(name) ==
    {name} \cup {SubSeq(name, 1, Len(name) - Len(x)) :
                    x \in {y \in {Increation, Waveform, PreviewJpg} : EndsWith(name, y)}}

\* C27: a housekeeping pass deletes no blob file whose bare name is
\* referenced by the rows of the pass, whatever call of the pass fails.
C27_ReferencedBlobNotDeleted ==
    hlast.op = "housekeeping" =>
        \A e \in hlast.deleted : e.name \notin Referenced(hlast.pre.tables)

\* C28: in a pass that returns, a blob file is deleted if and only if none
\* of the variants of its name is in the in-use set of the pass and none of
\* its creation, modification and access times is within the last hour.
C28_DeletedIffUnusedAndOld ==
    (hlast.op = "housekeeping" /\ hlast.res = Ok) =>
        \A e \in hlast.pre.blobdir :
            (e \notin blobdir) <=>
                /\ Variants(e.name) \cap hlast.files_in_use = {}
                /\ ~Recently(e.created)
                /\ ~Recently(e.modified)
                /\ ~Recently(e.accessed)

\* C29: housekeeping returns success whatever call fails, runs the sweep,
\* the ephemeral timers and the tombstone pruning, and (unless the
\* directory cannot be listed) passes every old file that is not in use to
\* the deletion.
C29_HousekeepingNeverFails ==
    hlast.op = "housekeeping" =>
        /\ hlast.res = Ok
        /\ hlast.ran = HkSteps
        /\ "read_dir" \notin hlast.f =>
              hlast.passed =
                  {e \in hlast.pre.blobdir :
                      Unreferenced(hlast.files_in_use, e, hlast.f)}

----------------------------------------------------------------------------
(* The state machine of the merged event emitter.                           *)

\* The accounts have the ids 1..MaxEmitters; each emits up to MaxEvents
\* events.
MaxEmitters == 2
MaxEvents == 2

EvCommit ==
    UNCHANGED <<vars, sqlVars, hkVars, tasks>>

\* The record after a step that is not a poll: no poll, and the wrappers
\* that have reported Disconnected so far.
NotAPoll ==
    [NoPoll EXCEPT !.was_closed = elast.closed, !.closed = elast.closed]

\* An account is added to the account map; its context owns the sender of a
\* new event channel.
NewContext ==
    \E id \in 1..MaxEmitters :
       /\ id \notin DOMAIN chan
       /\ chan' = [i \in DOMAIN chan \cup {id} |->
                      IF i \in DOMAIN chan THEN chan[i] ELSE NewChannel]
       /\ UNCHANGED <<emitter, delivered, recv>>
       /\ elast' = NotAPoll
       /\ EvCommit

\* An account emits an event: the n-th event of account src.
Emit ==
    \E id \in DOMAIN chan :
       /\ chan[id].senders
       /\ chan[id].sent < MaxEvents
       /\ chan' = [chan EXCEPT ![id].queue =
                                   Append(@, [src |-> id, n |-> chan[id].sent + 1]),
                               ![id].sent = @ + 1]
       /\ UNCHANGED <<emitter, delivered, recv>>
       /\ elast' = NotAPoll
       /\ EvCommit

\* The context of an account is dropped, and with it the sender.
DropContext ==
    \E id \in DOMAIN chan :
       /\ chan[id].senders
       /\ chan' = [chan EXCEPT ![id].senders = FALSE]
       /\ UNCHANGED <<emitter, delivered, recv>>
       /\ elast' = NotAPoll
       /\ EvCommit

\* Accounts::get_event_emitter over the accounts of the map.
GetEventEmitter ==
    /\ emitter = <<>>
    /\ \E order \in Orders(DOMAIN chan) :
          emitter' = <<get_event_emitter(order)>>
    /\ UNCHANGED <<chan, delivered, recv>>
    /\ elast' = NotAPoll
    /\ EvCommit

\* The record of the poll with outcome r, taken in the current state.
PollRecord(r) ==
    [op |-> "recv_poll", ret |-> r.ret, scanned |-> r.scanned,
     wrappers |-> Head(emitter),
     heads |-> Heads(chan, r.scanned),
     gone |-> Gone(chan, Head(emitter)),
     was_closed |-> {}, closed |-> {}]

\* One poll of the merged emitter.
RecvPoll ==
    /\ emitter # <<>>
    /\ \E r \in {recv_poll(Head(emitter), chan, 1, <<>>)} :
          /\ emitter' = <<r.wrappers>>
          /\ chan' = r.chans
          /\ delivered' = IF r.ret = Pending THEN delivered
                          ELSE Append(delivered, Head(Head(r.ret)))
          /\ elast' = PollRecord(r)
    /\ UNCHANGED recv
    /\ EvCommit

EmitterInit ==
    /\ dir = FALSE /\ file = <<>> /\ status = "none" /\ inner = NoInner
    /\ live = {} /\ ever = {}
    /\ last = [op |-> "init", arg |-> 0, f |-> {}, res |-> Ok, ret |-> 0, pre |-> NoPre]
    /\ SqlIdle
    /\ HkIdle
    /\ EvIdle
    /\ TasksIdle

EmitterNext ==
    \/ NewContext
    \/ Emit
    \/ DropContext
    \/ GetEventEmitter
    \/ RecvPoll

EmitterSpec == EmitterInit /\ [][EmitterNext]_allVars

----------------------------------------------------------------------------
(* Properties of the merged event emitter.                                  *)

\* The ids of the accounts the merged emitter was built over.
BuiltOver ==
    IF emitter = <<>> THEN {}
    ELSE {Head(emitter)[k].id : k \in 1..Len(Head(emitter))}

\* C30: every event the merged emitter delivered was emitted by an account
\* the emitter was built over, carries the id of that account, has left
\* the channel of the account, and was delivered once.
C30_DeliveredEventsAreTagged ==
    \A i \in 1..Len(delivered) :
        /\ delivered[i].id \in BuiltOver
        /\ delivered[i].event.src = delivered[i].id
        /\ delivered[i].event.n \in 1..chan[delivered[i].id].sent
        /\ \A k \in 1..Len(chan[delivered[i].id].queue) :
              chan[delivered[i].id].queue[k] # delivered[i].event
        /\ \A j \in 1..Len(delivered) :
              delivered[j].event = delivered[i].event => j = i

\* The emitter has delivered events of two accounts, the last poll one of
\* them.
C30_Witness ==
    /\ Len(delivered) >= 2
    /\ \E i, j \in 1..Len(delivered) : delivered[i].id # delivered[j].id
    /\ elast.ret # Pending

----------------------------------------------------------------------------
(* Polls of the merged event emitter.                                       *)

\* The ids of the wrappers of a wrapper list that are not marked done, in
\* the order of the list.
RECURSIVE NotDone(_)
NotDone(wrappers) ==
    IF wrappers = <<>> THEN <<>>
    ELSE IF Head(wrappers).done THEN NotDone(Tail(wrappers))
    ELSE <<Head(wrappers).id>> \o NotDone(Tail(wrappers))

\* C31: once a source has reported Disconnected in a poll it is marked
\* done, and no later poll queries it again.
C31_ClosedSourceIsSkipped ==
    /\ emitter # <<>> =>
          \A k \in 1..Len(Head(emitter)) :
              Head(emitter)[k].id \in elast.closed => Head(emitter)[k].done
    /\ \A k \in 1..Len(elast.scanned) : elast.scanned[k] \notin elast.was_closed

\* C32: a poll that finds each of its sources without an event and without
\* a sender returns PollReady(None), with which recv completes and returns None.
C32_RecvEndsWhenSendersAreGone ==
    (/\ elast.op = "recv_poll"
     /\ elast.wrappers # <<>>
     /\ \A k \in 1..Len(elast.wrappers) : elast.wrappers[k].id \in elast.gone)
    => elast.ret = PollReady(None)

\* C35: the wrappers keep the order they were built in; a poll queries the
\* wrappers that are not done in that order, up to and including the first
\* one with an event, and returns that event; it returns Pending only
\* after it has queried every wrapper that is not done and found each
\* channel empty.
PollScansInOrder ==
    elast.op = "recv_poll" =>
        LET ord == NotDone(elast.wrappers)
            n == Len(elast.scanned)
        IN  /\ n <= Len(ord)
            /\ elast.scanned = SubSeq(ord, 1, n)
            /\ \A k \in 1..(n - 1) : elast.heads[k] = None
            /\ IF elast.ret = Pending
               THEN /\ n = Len(ord)
                    /\ \A k \in 1..n : elast.heads[k] = None
               ELSE /\ n >= 1
                    /\ elast.heads[n] # None
                    /\ elast.ret = PollReady(Some([event |-> Head(elast.heads[n]),
                                                    id |-> elast.scanned[n]]))

OrderIsKept ==
    emitter # <<>> =>
        /\ Len(Head(emitter')) = Len(Head(emitter))
        /\ \A k \in 1..Len(Head(emitter)) : Head(emitter')[k].id = Head(emitter)[k].id

C35_PollReturnsFirstAvailable ==
    [](PollScansInOrder) /\ [][OrderIsKept]_allVars

\* The first wrapper, of the account with the greater id, was empty and
\* the last poll returned the event of the second wrapper.
C35_Witness ==
    /\ elast.op = "recv_poll"
    /\ Len(elast.scanned) = 2
    /\ elast.ret # Pending
    /\ elast.wrappers[1].id > elast.wrappers[2].id

----------------------------------------------------------------------------
(* A task awaiting EventEmitter::recv.  recv is poll_fn over recv_poll: the *)
(* task polls when it starts to await, and again each time its waker is     *)
(* called.  recv_poll does not use its task context and try_recv takes      *)
(* none, so no channel holds the waker of the task: a send wakes nobody.    *)

\* The effect of a poll with outcome r by the awaiting task.  Its record
\* keeps the wrappers that have reported Disconnected so far.
TaskPolls(r) ==
    /\ emitter' = <<r.wrappers>>
    /\ chan' = r.chans
    /\ delivered' = IF r.ret = Pending THEN delivered
                    ELSE Append(delivered, Head(Head(r.ret)))
    /\ elast' = [PollRecord(r) EXCEPT
                     !.was_closed = elast.closed,
                     !.closed = elast.closed \cup
                                   {id \in Gone(chan, Head(emitter)) :
                                       \E k \in 1..Len(r.scanned) : r.scanned[k] = id}]
    /\ recv' = IF r.ret = Pending THEN "parked" ELSE NoRecv
    /\ EvCommit

\* A task starts to await recv: the first poll.
Recv ==
    /\ emitter # <<>>
    /\ recv = NoRecv
    /\ \E r \in {recv_poll(Head(emitter), chan, 1, <<>>)} : TaskPolls(r)

\* The executor polls the woken task again.
RecvAgain ==
    /\ recv = "woken"
    /\ \E r \in {recv_poll(Head(emitter), chan, 1, <<>>)} : TaskPolls(r)

\* The waker of the task is called by another future of the task.
OtherWake ==
    /\ recv = "parked"
    /\ recv' = "woken"
    /\ UNCHANGED <<chan, emitter, delivered, elast>>
    /\ EvCommit

RecvNext ==
    \/ NewContext
    \/ Emit
    \/ DropContext
    \/ GetEventEmitter
    \/ Recv
    \/ RecvAgain
    \/ OtherWake

\* The executor runs a woken task.
RecvSpec == EmitterInit /\ [][RecvNext]_allVars /\ WF_allVars(RecvAgain)

\* C36: a recv that is parked while one of its sources holds an event
\* eventually completes.
C36_ParkedRecvCompletes ==
    (recv = "parked" /\ \E id \in BuiltOver : chan[id].queue # <<>>)
        ~> (recv = NoRecv)

----------------------------------------------------------------------------
(* maybe_add_file and is_file_in_use on their own: a set of names is built  *)
(* from values and asked about names.                                       *)

\* The values passed to maybe_add_file: "a", "$BLOBDIR/a", "$BLOBDIR",
\* "$BLOBDIR/", "$BLOBDIR/a.increation" and "x$BLOBDIR/a".
NameValues ==
    {<<"a">>, BlobA, SubSeq(BlobPrefix, 1, Len(BlobPrefix) - 1), BlobPrefix,
     BlobA \o Increation, <<"x">> \o BlobA}

\* The suffixes and names passed to is_file_in_use.
NameSuffixes == {None, Some(Increation), Some(Waveform)}

AskedNames ==
    {<<>>, <<"a">>, <<"b">>, Increation, <<"a">> \o Increation,
     <<"a">> \o Increation \o Increation, <<"a">> \o Waveform, BlobA}

\* maybe_add_file(&mut files, value).
MaybeAddFile ==
    \E value \in NameValues :
       /\ in_use' = maybe_add_file(in_use, value)
       /\ hlast' = [op |-> "maybe_add_file", value |-> value, pre |-> in_use]
       /\ UNCHANGED <<vars, sqlVars, evVars, tasks, tables, blobdir>>

\* is_file_in_use(&files, namespc_opt, name).
IsFileInUse ==
    \E namespc_opt \in NameSuffixes, name \in AskedNames :
       /\ hlast' = [op |-> "is_file_in_use", namespc_opt |-> namespc_opt,
                    name |-> name,
                    ret |-> is_file_in_use(in_use, namespc_opt, name)]
       /\ UNCHANGED <<vars, sqlVars, evVars, tasks, tables, blobdir, in_use>>

\* The set starts with or without the name "b".
NameInit ==
    /\ dir = FALSE /\ file = <<>> /\ status = "none" /\ inner = NoInner
    /\ live = {} /\ ever = {}
    /\ last = [op |-> "init", arg |-> 0, f |-> {}, res |-> Ok, ret |-> 0, pre |-> NoPre]
    /\ SqlIdle
    /\ EvIdle
    /\ TasksIdle
    /\ tables = NoTables /\ blobdir = {} /\ hlast = NoSweep
    /\ in_use \in {{}, {<<"b">>}}

NameNext ==
    \/ MaybeAddFile
    \/ IsFileInUse

NameSpec == NameInit /\ [][NameNext]_allVars

\* The ends of a sequence: s itself, s without its first element, ..., <<>>.
Ends(s) == {SubSeq(s, k, Len(s)) : k \in 1..(Len(s) + 1)}

\* C39: maybe_add_file adds to the set exactly the rest of a value that is
\* "$BLOBDIR/" followed by that rest, and nothing for any other value, such
\* as "$BLOBDIR" without the slash.
C39_MaybeAddFileStripsPrefix ==
    hlast.op = "maybe_add_file" =>
        /\ in_use = hlast.pre \cup {rest \in Ends(hlast.value) :
                                       hlast.value = BlobPrefix \o rest}
        /\ (\A rest \in Ends(hlast.value) : hlast.value # BlobPrefix \o rest)
              => in_use = hlast.pre

\* "$BLOBDIR/a" was passed and "a" was added.
C39_Witness ==
    /\ hlast.op = "maybe_add_file"
    /\ hlast.value = BlobA
    /\ <<"a">> \notin hlast.pre
    /\ <<"a">> \in in_use

\* C40: without a suffix is_file_in_use tells whether the name is in the
\* set; with a suffix it tells whether the name is a non-empty stem
\* followed by the suffix and the stem is in the set.
C40_IsFileInUseMatchesStem ==
    hlast.op = "is_file_in_use" =>
        hlast.ret =
            IF hlast.namespc_opt = None
            THEN hlast.name \in in_use
            ELSE \E stem \in in_use :
                    /\ Len(hlast.name) > Len(Head(hlast.namespc_opt))
                    /\ hlast.name = stem \o Head(hlast.namespc_opt)

\* The set holds the empty name and "a"; "a.increation" was asked with the
\* suffix ".increation" and is in use.
C40_Witness ==
    /\ hlast.op = "is_file_in_use"
    /\ hlast.namespc_opt = Some(Increation)
    /\ hlast.name = <<"a">> \o Increation
    /\ <<>> \in in_use
    /\ hlast.ret

----------------------------------------------------------------------------
(* The registry under concurrent calls.  Each step is what a call does      *)
(* between two awaits that can suspend it: a block under the write lock of  *)
(* Config.inner or of the account map, or Config::sync, which holds the     *)
(* read lock of Config.inner while it serialises and writes.                *)

\* The tasks that call into the one registry.
Tasks == {"t1", "t2"}

Idle == [op |-> "idle", pc |-> "idle", id |-> 0]

At(t, op, pc) == tasks[t].op = op /\ tasks[t].pc = pc

Goto(t, pc) == tasks' = [tasks EXCEPT ![t].pc = pc]

\* The call of task t returns (or panics: the task ends).
Return(t) == tasks' = [tasks EXCEPT ![t] = Idle]

RegCommit == UNCHANGED <<dir, status, last, sqlVars, hkVars, evVars>>

\* The write-lock block of Config::new_account.
NewAccountBlock(cfg) ==
    [cfg EXCEPT !.accounts = Append(@, AccountConfig(cfg.next_id)),
                !.next_id = @ + 1]

\* The write-lock block of Config::remove_account.
RemoveAccountBlock(cfg, id) ==
    LET idx == Position(cfg.accounts, id)
        accounts1 == IF idx # 0 THEN RemoveAt(cfg.accounts, idx) ELSE cfg.accounts
    IN  [cfg EXCEPT !.accounts = accounts1,
                    !.selected_account =
                        IF @ = id
                        THEN (IF Len(accounts1) > 0 THEN accounts1[1].id ELSE 0)
                        ELSE @]

\* add_account, in Config::new_account: the account is pushed.
AddPush(t) ==
    /\ tasks[t] = Idle
    /\ inner.next_id < MaxId
    /\ tasks' = [tasks EXCEPT ![t] = [op |-> "add_account", pc |-> "sync1",
                                      id |-> inner.next_id]]
    /\ inner' = NewAccountBlock(inner)
    /\ UNCHANGED <<file, live, ever>>
    /\ RegCommit

\* add_account, in Config::new_account: select_account(id).expect(..), its
\* write-lock block.
AddSelect(t) ==
    /\ At(t, "add_account", "select")
    /\ IF tasks[t].id \in Ids(inner.accounts)
       THEN inner' = [inner EXCEPT !.selected_account = tasks[t].id] /\ Goto(t, "sync2")
       ELSE UNCHANGED inner /\ Return(t)
    /\ UNCHANGED <<file, live, ever>>
    /\ RegCommit

\* add_account: get_account(id).expect(..) and Context::new, which can fail.
AddContext(t) ==
    /\ At(t, "add_account", "ctx")
    /\ \E ok \in BOOLEAN :
          IF tasks[t].id \in Ids(inner.accounts) /\ ok
          THEN Goto(t, "insert") ELSE Return(t)
    /\ UNCHANGED <<inner, file, live, ever>>
    /\ RegCommit

\* add_account: the context is inserted in the account map.
AddInsert(t) ==
    /\ At(t, "add_account", "insert")
    /\ live' = live \cup {tasks[t].id}
    /\ Return(t)
    /\ UNCHANGED <<inner, file, ever>>
    /\ RegCommit

\* remove_account(id): the context is taken out of the account map.
RemoveTake(t) ==
    \E id \in live :
       /\ tasks[t] = Idle
       /\ live' = live \ {id}
       /\ tasks' = [tasks EXCEPT ![t] = [op |-> "remove_account", pc |-> "rmdir",
                                         id |-> id]]
       /\ UNCHANGED <<inner, file, ever>>
       /\ RegCommit

\* remove_account: the directory of the account is removed, which can fail.
RemoveDir(t) ==
    /\ At(t, "remove_account", "rmdir")
    /\ \E ok \in BOOLEAN :
          IF tasks[t].id \in Ids(inner.accounts) /\ ~ok
          THEN Return(t) ELSE Goto(t, "unlist")
    /\ UNCHANGED <<inner, file, live, ever>>
    /\ RegCommit

\* remove_account, in Config::remove_account: the write-lock block.
RemoveUnlist(t) ==
    /\ At(t, "remove_account", "unlist")
    /\ inner' = RemoveAccountBlock(inner, tasks[t].id)
    /\ Goto(t, "rsync")
    /\ UNCHANGED <<file, live, ever>>
    /\ RegCommit

\* select_account(id) with a listed id: the write-lock block.
SelectBlock(t) ==
    \E id \in Ids(inner.accounts) :
       /\ tasks[t] = Idle
       /\ inner' = [inner EXCEPT !.selected_account = id]
       /\ tasks' = [tasks EXCEPT ![t] = [op |-> "select_account", pc |-> "ssync",
                                         id |-> id]]
       /\ UNCHANGED <<file, live, ever>>
       /\ RegCommit

\* Where a call goes on after a Config::sync that succeeded; a call that is
\* not listed returns, and so does every call whose sync failed.
AfterSync == [sync1 |-> "select", sync2 |-> "ctx"]

\* Config::sync of a call: accounts.toml is rewritten from the state in
\* memory, or the write fails.
Sync(t) ==
    /\ tasks[t].pc \in {"sync1", "sync2", "rsync", "ssync"}
    /\ \E ok \in BOOLEAN :
          /\ IF ok
             THEN file' = <<ToToml(inner)>> /\ ever' = ever \cup Ids(inner.accounts)
             ELSE UNCHANGED <<file, ever>>
          /\ IF ok /\ tasks[t].pc \in DOMAIN AfterSync
             THEN Goto(t, AfterSync[tasks[t].pc]) ELSE Return(t)
    /\ UNCHANGED <<inner, live>>
    /\ RegCommit

\* The registry Accounts::new("my_os", dir) leaves in a directory that did
\* not exist, and two tasks that share it.
RegInit ==
    /\ \E n \in {Accounts_new([dir |-> FALSE, file |-> <<>>, inner |-> NoInner,
                               live |-> {}, ever |-> {}], "my_os", {})} :
          /\ dir = n.w.dir /\ file = n.w.file /\ inner = n.w.inner
          /\ live = n.w.live /\ ever = n.w.ever
    /\ status = "ready"
    /\ last = [op |-> "init", arg |-> 0, f |-> {}, res |-> Ok, ret |-> 0, pre |-> NoPre]
    /\ SqlIdle
    /\ HkIdle
    /\ EvIdle
    /\ tasks = [t \in Tasks |-> Idle]

RegNext ==
    \E t \in Tasks :
       \/ AddPush(t)
       \/ AddSelect(t)
       \/ AddContext(t)
       \/ AddInsert(t)
       \/ RemoveTake(t)
       \/ RemoveDir(t)
       \/ RemoveUnlist(t)
       \/ SelectBlock(t)
       \/ Sync(t)

RegSpec == RegInit /\ [][RegNext]_allVars

\* The tasks whose call has changed the state in memory and has not yet
\* completed its rewrite of accounts.toml.
Unsynced == {t \in Tasks : tasks[t].pc \in {"sync1", "sync2", "rsync", "ssync"}}

\* C33: at most one call at a time is between its change of the state in
\* memory and the end of its rewrite of accounts.toml.
C33_MutationAndRewriteAreOneCriticalSection ==
    \A t, u \in Unsynced : t = u

\* C37: while the account list is not empty the selected account has a
\* context in the account map.
C37_SelectedAccountIsLive ==
    (Ready /\ inner.accounts # <<>>) => inner.selected_account \in live

----------------------------------------------------------------------------
(* Sql::open called by two tasks on one handle.  The steps of a call are    *)
(* the is_open check of open, the store of the r2d2 pool, the start of the  *)
(* migration (the version is read), the migration, and open2.               *)

Returned(res) == [op |-> "open", pc |-> "returned", res |-> res]

\* What the caller of the migrator finds: whether the file has the base
\* tables (they are created when it has not) and the recorded version.
ReadVersion(d) ==
    IF d.base
    THEN [db |-> d, v |-> RecordedVersion(d), exists_before_update |-> TRUE]
    ELSE [db |-> [d EXCEPT !.base = TRUE], v |-> 0, exists_before_update |-> FALSE]

OpenCommit == UNCHANGED <<vars, hkVars, evVars, slast>>

\* open: `if sql.is_open().await { return Err(SqlAlreadyOpen) }`.
OpenCheck(t) ==
    /\ tasks[t].pc \in {"idle", "returned"}
    /\ tasks' = [tasks EXCEPT ![t] =
                    IF Sql_is_open(SqlWorld) THEN Returned(ErrAlreadyOpen)
                    ELSE [op |-> "open", pc |-> "attach"]]
    /\ UNCHANGED <<pool, sql, db>>
    /\ OpenCommit

\* open: the pool is built over the file, which it creates, and stored.
OpenAttach(t) ==
    /\ At(t, "open", "attach")
    /\ pool' = <<[readonly |-> FALSE]>>
    /\ db' = [db EXCEPT !.exists = TRUE]
    /\ Goto(t, "migrate")
    /\ UNCHANGED sql
    /\ OpenCommit

\* open: the migration starts with the version the file records now.
OpenBegin(t) ==
    /\ At(t, "open", "migrate")
    /\ \E r \in {ReadVersion(db)} :
          /\ db' = r.db
          /\ tasks' = [tasks EXCEPT ![t] =
                          [op |-> "open", pc |-> "run", v |-> r.v,
                           exists_before_update |-> r.exists_before_update]]
    /\ UNCHANGED <<pool, sql>>
    /\ OpenCommit

\* open: migrations::run from the version read.  Its statements fail when
\* the pool has been taken away; Sql::open closes the handle on an error.
OpenRun(t) ==
    /\ At(t, "open", "run")
    /\ IF pool = <<>>
       THEN /\ tasks' = [tasks EXCEPT ![t] =
                            Returned(ErrCouldNotOpen \o ": " \o ErrNoConnection)]
            /\ sql' = <<>>
            /\ UNCHANGED <<pool, db>>
       ELSE \E m \in {migrations_run(Head(pool), db, tasks[t].v,
                                     tasks[t].exists_before_update, NoFault)} :
               /\ db' = m.db
               /\ IF m.res = Ok
                  THEN Goto(t, "open2") /\ UNCHANGED <<pool, sql>>
                  ELSE /\ tasks' = [tasks EXCEPT ![t] =
                                       Returned(ErrCouldNotOpen \o ": " \o m.res)]
                       /\ pool' = <<>>
                       /\ sql' = <<>>
    /\ OpenCommit

\* Sql::open: open2.  It stores the sqlx pool and runs the migrator, whose
\* statements fail when the r2d2 pool has been taken away.
Open2(t) ==
    /\ At(t, "open", "open2")
    /\ IF pool = <<>>
       THEN /\ sql' = <<[readonly |-> FALSE]>>
            /\ tasks' = [tasks EXCEPT ![t] = Returned(ErrNoConnection)]
            /\ UNCHANGED <<pool, db>>
       ELSE \E r \in {open2(SqlWorld, FALSE, {})} :
               /\ pool' = r.s.pool /\ sql' = r.s.sql /\ db' = r.s.db
               /\ tasks' = [tasks EXCEPT ![t] = Returned(r.res)]
    /\ OpenCommit

\* Sql::close by a task that is in no call.
TaskClose(t) ==
    /\ tasks[t].pc \in {"idle", "returned"}
    /\ Sql_is_open(SqlWorld)
    /\ \E s \in {Sql_close(SqlWorld)} : pool' = s.pool /\ sql' = s.sql
    /\ tasks' = [tasks EXCEPT ![t] = Idle]
    /\ UNCHANGED db
    /\ OpenCommit

\* A closed handle over no file or over the file of the first, an old or
\* the current release, and two tasks that share it.
OpenRaceInit ==
    /\ dir = FALSE /\ file = <<>> /\ status = "none" /\ inner = NoInner
    /\ live = {} /\ ever = {}
    /\ last = [op |-> "init", arg |-> 0, f |-> {}, res |-> Ok, ret |-> 0, pre |-> NoPre]
    /\ pool = <<>>
    /\ sql = <<>>
    /\ db \in {NoDb} \cup {Existing(v, <<>>) : v \in {0, 49, 69}}
    /\ slast = NoCall
    /\ HkIdle
    /\ EvIdle
    /\ tasks = [t \in Tasks |-> Idle]

OpenRaceNext ==
    \E t \in Tasks :
       \/ OpenCheck(t)
       \/ OpenAttach(t)
       \/ OpenBegin(t)
       \/ OpenRun(t)
       \/ Open2(t)
       \/ TaskClose(t)

OpenRaceSpec == OpenRaceInit /\ [][OpenRaceNext]_allVars

\* The tasks whose open has stored its pool and not finished its migration.
Migrating == {t \in Tasks : tasks[t].pc \in {"migrate", "run"}}

\* C34: at most one open at a time has its pool stored and its migration
\* under way.
C34_OpenIsExclusive ==
    \A t, u \in Migrating : t = u

----------------------------------------------------------------------------
(* set_raw_config called by two tasks on one open store.  A call with a     *)
(* value is two statements, each awaited on its own: the existence check    *)
(* and then the UPDATE or the INSERT the check chose.                       *)

SetCommit == UNCHANGED <<vars, hkVars, evVars, pool, sql, slast>>

\* set_raw_config(key, Some(value)): is_open and the existence check.
SetCheck(t) ==
    \E value \in RawValues :
       /\ tasks[t].pc \in {"idle", "returned"}
       /\ \E x \in {Sql_exists(SqlWorld, SelectCount("k"), FALSE)} :
             tasks' = [tasks EXCEPT ![t] =
                          IF ~Sql_is_open(SqlWorld)
                          THEN [op |-> "set_raw_config", pc |-> "returned",
                                value |-> value, res |-> ErrNoConnection]
                          ELSE IF x.res # Ok
                          THEN [op |-> "set_raw_config", pc |-> "returned",
                                value |-> value, res |-> x.res]
                          ELSE [op |-> "set_raw_config", pc |-> "write",
                                value |-> value, exists |-> x.ret]]
       /\ UNCHANGED db
       /\ SetCommit

\* set_raw_config(key, Some(value)): the UPDATE when the check found the
\* key, else the INSERT.
SetWrite(t) ==
    /\ At(t, "set_raw_config", "write")
    /\ \E r \in {Sql_execute(SqlWorld,
                             IF tasks[t].exists
                             THEN Update("k", tasks[t].value)
                             ELSE Insert("k", tasks[t].value), FALSE)} :
          /\ db' = r.s.db
          /\ tasks' = [tasks EXCEPT ![t] =
                          [op |-> "set_raw_config", pc |-> "returned",
                           value |-> tasks[t].value, res |-> r.res]]
    /\ SetCommit

\* set_raw_config(key, None): the DELETE.
SetNone(t) ==
    /\ tasks[t].pc \in {"idle", "returned"}
    /\ \E r \in {Sql_set_raw_config(SqlWorld, "k", None, {})} :
          /\ db' = r.s.db
          /\ tasks' = [tasks EXCEPT ![t] =
                          [op |-> "set_raw_config", pc |-> "returned",
                           value |-> None, res |-> r.res]]
    /\ SetCommit

\* An open store of the current release without the key, and two tasks
\* that share it.
SetRaceInit ==
    /\ dir = FALSE /\ file = <<>> /\ status = "none" /\ inner = NoInner
    /\ live = {} /\ ever = {}
    /\ last = [op |-> "init", arg |-> 0, f |-> {}, res |-> Ok, ret |-> 0, pre |-> NoPre]
    /\ pool = <<[readonly |-> FALSE]>>
    /\ sql = <<[readonly |-> FALSE]>>
    /\ db = Existing(69, <<>>)
    /\ slast = NoCall
    /\ HkIdle
    /\ EvIdle
    /\ tasks = [t \in Tasks |-> Idle]

SetRaceNext ==
    \E t \in Tasks :
       \/ SetCheck(t)
       \/ SetWrite(t)
       \/ SetNone(t)

SetRaceSpec == SetRaceInit /\ [][SetRaceNext]_allVars

\* C38: on an open store on which no statement fails for a reason of its
\* own, every set_raw_config call returns success, and the table has at
\* most one row for the key, with the value of one of the calls.
C38_ConcurrentSetsSucceed ==
    /\ \A t \in Tasks : tasks[t].pc = "returned" => tasks[t].res = Ok
    /\ Len(RowsFor(db.config, "k")) <= 1
    /\ \A i \in 1..Len(db.config) :
          db.config[i].keyname = "k" => db.config[i].value \in RawValues
=============================================================================
